---- MODULE Spec2Model ----
(***************************************************************************)
(* vntaptd: the callback-to-queue bridge of TdApi.  SDK callback threads   *)
(* OnX turn each event into a tagged Task and push it on task_queue; the *)
(* worker thread started by init() runs processTask, pops tasks, switches  *)
(* on task_name, and the processX function invokes the onX handler.        *)
(***************************************************************************)
EXTENDS Integers, Sequences, FiniteSets, TLC

(* ---- bounds of the model ---------------------------------------------- *)
\* callbacks the SDK delivers in one run of Spec
MaxEvents == 2
\* SDK threads that deliver callbacks concurrently
NumSdkThreads == 2
\* calls the scripting host makes to createFtdcTraderApi / init / exit
MaxHostCalls == 3

\* width in bits of int and unsigned int in the model (the build has 32; the
\* model checker's integers do not reach 2^31)
IntBits == 8

SdkThreads == 1..NumSdkThreads
\* a worker thread object is created by each init(); at most one per host call
WorkerIds == 1..MaxHostCalls

(* ---- the code of the 50 callbacks, the switch, the processX functions   *)
(* ---- and the handler signatures, as tables ---------------------------- *)

CallbackCode ==
  [ OnConnect |-> [task_name |-> "ONCONNECT",
        params |-> <<>>,
        sets |-> <<>>],
    OnRspLogin |-> [task_name |-> "ONRSPLOGIN",
        params |-> <<[name |-> "errorCode", type |-> "int", struct |-> ""], [name |-> "loginRspInfo", type |-> "ptr", struct |-> "TapAPITradeLoginRspInfo"]>>,
        sets |-> <<<<"task_int", "errorCode">>, <<"task_data", "loginRspInfo">>>>],
    OnRtnContactInfo |-> [task_name |-> "ONRTNCONTACTINFO",
        params |-> <<[name |-> "errorCode", type |-> "int", struct |-> ""], [name |-> "isLast", type |-> "char", struct |-> ""], [name |-> "ContactInfo", type |-> "string", struct |-> ""]>>,
        sets |-> <<<<"task_int", "errorCode">>, <<"task_last", "isLast">>, <<"task_string", "ContactInfo">>>>],
    OnRspRequestVertificateCode |-> [task_name |-> "ONRSPREQUESTVERTIFICATECODE",
        params |-> <<[name |-> "sessionID", type |-> "unsigned int", struct |-> ""], [name |-> "errorCode", type |-> "int", struct |-> ""], [name |-> "rsp", type |-> "ptr", struct |-> "TapAPIRequestVertificateCodeRsp"]>>,
        sets |-> <<<<"task_id", "sessionID">>, <<"task_int", "errorCode">>, <<"task_data", "rsp">>>>],
    OnExpriationDate |-> [task_name |-> "ONEXPRIATIONDATE",
        params |-> <<[name |-> "date", type |-> "string", struct |-> ""], [name |-> "days", type |-> "int", struct |-> ""]>>,
        sets |-> <<<<"task_string", "date">>, <<"task_int", "days">>>>],
    OnAPIReady |-> [task_name |-> "ONAPIREADY",
        params |-> <<[name |-> "errorCode", type |-> "int", struct |-> ""]>>,
        sets |-> <<<<"task_int", "errorCode">>>>],
    OnDisconnect |-> [task_name |-> "ONDISCONNECT",
        params |-> <<[name |-> "reasonCode", type |-> "int", struct |-> ""]>>,
        sets |-> <<<<"task_int", "reasonCode">>>>],
    OnRspChangePassword |-> [task_name |-> "ONRSPCHANGEPASSWORD",
        params |-> <<[name |-> "sessionID", type |-> "unsigned int", struct |-> ""], [name |-> "errorCode", type |-> "int", struct |-> ""]>>,
        sets |-> <<<<"task_id", "sessionID">>, <<"task_int", "errorCode">>>>],
    OnRspAuthPassword |-> [task_name |-> "ONRSPAUTHPASSWORD",
        params |-> <<[name |-> "sessionID", type |-> "unsigned int", struct |-> ""], [name |-> "errorCode", type |-> "int", struct |-> ""]>>,
        sets |-> <<<<"task_id", "sessionID">>, <<"task_int", "errorCode">>>>],
    OnRspQryTradingDate |-> [task_name |-> "ONRSPQRYTRADINGDATE",
        params |-> <<[name |-> "sessionID", type |-> "unsigned int", struct |-> ""], [name |-> "errorCode", type |-> "int", struct |-> ""], [name |-> "info", type |-> "ptr", struct |-> "TapAPITradingCalendarQryRsp"]>>,
        sets |-> <<<<"task_id", "sessionID">>, <<"task_int", "errorCode">>, <<"task_data", "info">>>>],
    OnRspSetReservedInfo |-> [task_name |-> "ONRSPSETRESERVEDINFO",
        params |-> <<[name |-> "sessionID", type |-> "unsigned int", struct |-> ""], [name |-> "errorCode", type |-> "int", struct |-> ""], [name |-> "info", type |-> "string", struct |-> ""]>>,
        sets |-> <<<<"task_id", "sessionID">>, <<"task_int", "errorCode">>, <<"task_string", "info">>>>],
    OnRspQryAccount |-> [task_name |-> "ONRSPQRYACCOUNT",
        params |-> <<[name |-> "sessionID", type |-> "unsigned int", struct |-> ""], [name |-> "errorCode", type |-> "unsigned int", struct |-> ""], [name |-> "isLast", type |-> "char", struct |-> ""], [name |-> "info", type |-> "ptr", struct |-> "TapAPIAccountInfo"]>>,
        sets |-> <<<<"task_id", "sessionID">>, <<"task_id", "errorCode">>, <<"task_last", "isLast">>, <<"task_data", "info">>>>],
    OnRspQryFund |-> [task_name |-> "ONRSPQRYFUND",
        params |-> <<[name |-> "sessionID", type |-> "unsigned int", struct |-> ""], [name |-> "errorCode", type |-> "int", struct |-> ""], [name |-> "isLast", type |-> "char", struct |-> ""], [name |-> "info", type |-> "ptr", struct |-> "TapAPIFundData"]>>,
        sets |-> <<<<"task_id", "sessionID">>, <<"task_int", "errorCode">>, <<"task_last", "isLast">>, <<"task_data", "info">>>>],
    OnRtnFund |-> [task_name |-> "ONRTNFUND",
        params |-> <<[name |-> "info", type |-> "ptr", struct |-> "TapAPIFundData"]>>,
        sets |-> <<<<"task_data", "info">>>>],
    OnRspQryExchange |-> [task_name |-> "ONRSPQRYEXCHANGE",
        params |-> <<[name |-> "sessionID", type |-> "unsigned int", struct |-> ""], [name |-> "errorCode", type |-> "int", struct |-> ""], [name |-> "isLast", type |-> "char", struct |-> ""], [name |-> "info", type |-> "ptr", struct |-> "TapAPIExchangeInfo"]>>,
        sets |-> <<<<"task_id", "sessionID">>, <<"task_int", "errorCode">>, <<"task_last", "isLast">>, <<"task_data", "info">>>>],
    OnRspQryCommodity |-> [task_name |-> "ONRSPQRYCOMMODITY",
        params |-> <<[name |-> "sessionID", type |-> "unsigned int", struct |-> ""], [name |-> "errorCode", type |-> "int", struct |-> ""], [name |-> "isLast", type |-> "char", struct |-> ""], [name |-> "info", type |-> "ptr", struct |-> "TapAPICommodityInfo"]>>,
        sets |-> <<<<"task_id", "sessionID">>, <<"task_int", "errorCode">>, <<"task_last", "isLast">>, <<"task_data", "info">>>>],
    OnRspQryContract |-> [task_name |-> "ONRSPQRYCONTRACT",
        params |-> <<[name |-> "sessionID", type |-> "unsigned int", struct |-> ""], [name |-> "errorCode", type |-> "int", struct |-> ""], [name |-> "isLast", type |-> "char", struct |-> ""], [name |-> "info", type |-> "ptr", struct |-> "TapAPITradeContractInfo"]>>,
        sets |-> <<<<"task_id", "sessionID">>, <<"task_int", "errorCode">>, <<"task_last", "isLast">>, <<"task_data", "info">>>>],
    OnRtnContract |-> [task_name |-> "ONRTNCONTRACT",
        params |-> <<[name |-> "info", type |-> "ptr", struct |-> "TapAPITradeContractInfo"]>>,
        sets |-> <<<<"task_data", "info">>>>],
    OnRspOrderAction |-> [task_name |-> "ONRSPORDERACTION",
        params |-> <<[name |-> "sessionID", type |-> "unsigned int", struct |-> ""], [name |-> "errorCode", type |-> "int", struct |-> ""], [name |-> "info", type |-> "ptr", struct |-> "TapAPIOrderActionRsp"]>>,
        sets |-> <<<<"task_id", "sessionID">>, <<"task_int", "errorCode">>, <<"task_data", "info">>>>],
    OnRtnOrder |-> [task_name |-> "ONRTNORDER",
        params |-> <<[name |-> "info", type |-> "ptr", struct |-> "TapAPIOrderInfoNotice"]>>,
        sets |-> <<<<"task_data", "info">>>>],
    OnRspQryOrder |-> [task_name |-> "ONRSPQRYORDER",
        params |-> <<[name |-> "sessionID", type |-> "unsigned int", struct |-> ""], [name |-> "errorCode", type |-> "int", struct |-> ""], [name |-> "isLast", type |-> "char", struct |-> ""], [name |-> "info", type |-> "ptr", struct |-> "TapAPIOrderInfo"]>>,
        sets |-> <<<<"task_id", "sessionID">>, <<"task_int", "errorCode">>, <<"task_last", "isLast">>, <<"task_data", "info">>>>],
    OnRspQryOrderProcess |-> [task_name |-> "ONRSPQRYORDERPROCESS",
        params |-> <<[name |-> "sessionID", type |-> "unsigned int", struct |-> ""], [name |-> "errorCode", type |-> "int", struct |-> ""], [name |-> "isLast", type |-> "char", struct |-> ""], [name |-> "info", type |-> "ptr", struct |-> "TapAPIOrderInfo"]>>,
        sets |-> <<<<"task_id", "sessionID">>, <<"task_int", "errorCode">>, <<"task_last", "isLast">>, <<"task_data", "info">>>>],
    OnRspQryFill |-> [task_name |-> "ONRSPQRYFILL",
        params |-> <<[name |-> "sessionID", type |-> "unsigned int", struct |-> ""], [name |-> "errorCode", type |-> "int", struct |-> ""], [name |-> "isLast", type |-> "char", struct |-> ""], [name |-> "info", type |-> "ptr", struct |-> "TapAPIFillInfo"]>>,
        sets |-> <<<<"task_id", "sessionID">>, <<"task_int", "errorCode">>, <<"task_last", "isLast">>, <<"task_data", "info">>>>],
    OnRtnFill |-> [task_name |-> "ONRTNFILL",
        params |-> <<[name |-> "info", type |-> "ptr", struct |-> "TapAPIFillInfo"]>>,
        sets |-> <<<<"task_data", "info">>>>],
    OnRspQryPosition |-> [task_name |-> "ONRSPQRYPOSITION",
        params |-> <<[name |-> "sessionID", type |-> "unsigned int", struct |-> ""], [name |-> "errorCode", type |-> "int", struct |-> ""], [name |-> "isLast", type |-> "char", struct |-> ""], [name |-> "info", type |-> "ptr", struct |-> "TapAPIPositionInfo"]>>,
        sets |-> <<<<"task_id", "sessionID">>, <<"task_int", "errorCode">>, <<"task_last", "isLast">>, <<"task_data", "info">>>>],
    OnRtnPosition |-> [task_name |-> "ONRTNPOSITION",
        params |-> <<[name |-> "info", type |-> "ptr", struct |-> "TapAPIPositionInfo"]>>,
        sets |-> <<<<"task_data", "info">>>>],
    OnRspQryPositionSummary |-> [task_name |-> "ONRSPQRYPOSITIONSUMMARY",
        params |-> <<[name |-> "sessionID", type |-> "unsigned int", struct |-> ""], [name |-> "errorCode", type |-> "int", struct |-> ""], [name |-> "isLast", type |-> "char", struct |-> ""], [name |-> "info", type |-> "ptr", struct |-> "TapAPIPositionSummary"]>>,
        sets |-> <<<<"task_id", "sessionID">>, <<"task_int", "errorCode">>, <<"task_last", "isLast">>, <<"task_data", "info">>>>],
    OnRtnPositionSummary |-> [task_name |-> "ONRTNPOSITIONSUMMARY",
        params |-> <<[name |-> "info", type |-> "ptr", struct |-> "TapAPIPositionSummary"]>>,
        sets |-> <<<<"task_data", "info">>>>],
    OnRtnPositionProfit |-> [task_name |-> "ONRTNPOSITIONPROFIT",
        params |-> <<[name |-> "info", type |-> "ptr", struct |-> "TapAPIPositionProfitNotice"]>>,
        sets |-> <<<<"task_data", "info">>>>],
    OnRspQryCurrency |-> [task_name |-> "ONRSPQRYCURRENCY",
        params |-> <<[name |-> "sessionID", type |-> "unsigned int", struct |-> ""], [name |-> "errorCode", type |-> "int", struct |-> ""], [name |-> "isLast", type |-> "char", struct |-> ""], [name |-> "info", type |-> "ptr", struct |-> "TapAPICurrencyInfo"]>>,
        sets |-> <<<<"task_id", "sessionID">>, <<"task_int", "errorCode">>, <<"task_last", "isLast">>, <<"task_data", "info">>>>],
    OnRspQryTradeMessage |-> [task_name |-> "ONRSPQRYTRADEMESSAGE",
        params |-> <<[name |-> "sessionID", type |-> "unsigned int", struct |-> ""], [name |-> "errorCode", type |-> "int", struct |-> ""], [name |-> "isLast", type |-> "char", struct |-> ""], [name |-> "info", type |-> "ptr", struct |-> "TapAPITradeMessage"]>>,
        sets |-> <<<<"task_id", "sessionID">>, <<"task_int", "errorCode">>, <<"task_last", "isLast">>, <<"task_data", "info">>>>],
    OnRtnTradeMessage |-> [task_name |-> "ONRTNTRADEMESSAGE",
        params |-> <<[name |-> "info", type |-> "ptr", struct |-> "TapAPITradeMessage"]>>,
        sets |-> <<<<"task_data", "info">>>>],
    OnRspQryHisOrder |-> [task_name |-> "ONRSPQRYHISORDER",
        params |-> <<[name |-> "sessionID", type |-> "unsigned int", struct |-> ""], [name |-> "errorCode", type |-> "int", struct |-> ""], [name |-> "isLast", type |-> "char", struct |-> ""], [name |-> "info", type |-> "ptr", struct |-> "TapAPIHisOrderQryRsp"]>>,
        sets |-> <<<<"task_id", "sessionID">>, <<"task_int", "errorCode">>, <<"task_last", "isLast">>, <<"task_data", "info">>>>],
    OnRspQryHisOrderProcess |-> [task_name |-> "ONRSPQRYHISORDERPROCESS",
        params |-> <<[name |-> "sessionID", type |-> "unsigned int", struct |-> ""], [name |-> "errorCode", type |-> "int", struct |-> ""], [name |-> "isLast", type |-> "char", struct |-> ""], [name |-> "info", type |-> "ptr", struct |-> "TapAPIHisOrderProcessQryRsp"]>>,
        sets |-> <<<<"task_id", "sessionID">>, <<"task_int", "errorCode">>, <<"task_last", "isLast">>, <<"task_data", "info">>>>],
    OnRspQryHisMatch |-> [task_name |-> "ONRSPQRYHISMATCH",
        params |-> <<[name |-> "sessionID", type |-> "unsigned int", struct |-> ""], [name |-> "errorCode", type |-> "int", struct |-> ""], [name |-> "isLast", type |-> "char", struct |-> ""], [name |-> "info", type |-> "ptr", struct |-> "TapAPIHisMatchQryRsp"]>>,
        sets |-> <<<<"task_id", "sessionID">>, <<"task_int", "errorCode">>, <<"task_last", "isLast">>, <<"task_data", "info">>>>],
    OnRspQryHisPosition |-> [task_name |-> "ONRSPQRYHISPOSITION",
        params |-> <<[name |-> "sessionID", type |-> "unsigned int", struct |-> ""], [name |-> "errorCode", type |-> "int", struct |-> ""], [name |-> "isLast", type |-> "char", struct |-> ""], [name |-> "info", type |-> "ptr", struct |-> "TapAPIHisPositionQryRsp"]>>,
        sets |-> <<<<"task_id", "sessionID">>, <<"task_int", "errorCode">>, <<"task_last", "isLast">>, <<"task_data", "info">>>>],
    OnRspQryHisDelivery |-> [task_name |-> "ONRSPQRYHISDELIVERY",
        params |-> <<[name |-> "sessionID", type |-> "unsigned int", struct |-> ""], [name |-> "errorCode", type |-> "int", struct |-> ""], [name |-> "isLast", type |-> "char", struct |-> ""], [name |-> "info", type |-> "ptr", struct |-> "TapAPIHisDeliveryQryRsp"]>>,
        sets |-> <<<<"task_id", "sessionID">>, <<"task_int", "errorCode">>, <<"task_last", "isLast">>, <<"task_data", "info">>>>],
    OnRspQryAccountCashAdjust |-> [task_name |-> "ONRSPQRYACCOUNTCASHADJUST",
        params |-> <<[name |-> "sessionID", type |-> "unsigned int", struct |-> ""], [name |-> "errorCode", type |-> "int", struct |-> ""], [name |-> "isLast", type |-> "char", struct |-> ""], [name |-> "info", type |-> "ptr", struct |-> "TapAPIAccountCashAdjustQryRsp"]>>,
        sets |-> <<<<"task_id", "sessionID">>, <<"task_int", "errorCode">>, <<"task_last", "isLast">>, <<"task_data", "info">>>>],
    OnRspQryBill |-> [task_name |-> "ONRSPQRYBILL",
        params |-> <<[name |-> "sessionID", type |-> "unsigned int", struct |-> ""], [name |-> "errorCode", type |-> "int", struct |-> ""], [name |-> "isLast", type |-> "char", struct |-> ""], [name |-> "info", type |-> "ptr", struct |-> "TapAPIBillQryRsp"]>>,
        sets |-> <<<<"task_id", "sessionID">>, <<"task_int", "errorCode">>, <<"task_last", "isLast">>, <<"task_data", "info">>>>],
    OnRspQryAccountFeeRent |-> [task_name |-> "ONRSPQRYACCOUNTFEERENT",
        params |-> <<[name |-> "sessionID", type |-> "unsigned int", struct |-> ""], [name |-> "errorCode", type |-> "int", struct |-> ""], [name |-> "isLast", type |-> "char", struct |-> ""], [name |-> "info", type |-> "ptr", struct |-> "TapAPIAccountFeeRentQryRsp"]>>,
        sets |-> <<<<"task_id", "sessionID">>, <<"task_int", "errorCode">>, <<"task_last", "isLast">>, <<"task_data", "info">>>>],
    OnRspQryAccountMarginRent |-> [task_name |-> "ONRSPQRYACCOUNTMARGINRENT",
        params |-> <<[name |-> "sessionID", type |-> "unsigned int", struct |-> ""], [name |-> "errorCode", type |-> "int", struct |-> ""], [name |-> "isLast", type |-> "char", struct |-> ""], [name |-> "info", type |-> "ptr", struct |-> "TapAPIAccountMarginRentQryRsp"]>>,
        sets |-> <<<<"task_id", "sessionID">>, <<"task_int", "errorCode">>, <<"task_last", "isLast">>, <<"task_data", "info">>>>],
    OnRspHKMarketOrderInsert |-> [task_name |-> "ONRSPHKMARKETORDERINSERT",
        params |-> <<[name |-> "sessionID", type |-> "unsigned int", struct |-> ""], [name |-> "errorCode", type |-> "int", struct |-> ""], [name |-> "info", type |-> "ptr", struct |-> "TapAPIOrderMarketInsertRsp"]>>,
        sets |-> <<<<"task_id", "sessionID">>, <<"task_int", "errorCode">>, <<"task_data", "info">>>>],
    OnRspHKMarketOrderDelete |-> [task_name |-> "ONRSPHKMARKETORDERDELETE",
        params |-> <<[name |-> "sessionID", type |-> "unsigned int", struct |-> ""], [name |-> "errorCode", type |-> "int", struct |-> ""], [name |-> "info", type |-> "ptr", struct |-> "TapAPIOrderMarketDeleteRsp"]>>,
        sets |-> <<<<"task_id", "sessionID">>, <<"task_int", "errorCode">>, <<"task_data", "info">>>>],
    OnHKMarketQuoteNotice |-> [task_name |-> "ONHKMARKETQUOTENOTICE",
        params |-> <<[name |-> "info", type |-> "ptr", struct |-> "TapAPIOrderQuoteMarketNotice"]>>,
        sets |-> <<<<"task_data", "info">>>>],
    OnRspOrderLocalRemove |-> [task_name |-> "ONRSPORDERLOCALREMOVE",
        params |-> <<[name |-> "sessionID", type |-> "unsigned int", struct |-> ""], [name |-> "errorCode", type |-> "int", struct |-> ""], [name |-> "info", type |-> "ptr", struct |-> "TapAPIOrderLocalRemoveRsp"]>>,
        sets |-> <<<<"task_id", "sessionID">>, <<"task_int", "errorCode">>, <<"task_data", "info">>>>],
    OnRspOrderLocalInput |-> [task_name |-> "ONRSPORDERLOCALINPUT",
        params |-> <<[name |-> "sessionID", type |-> "unsigned int", struct |-> ""], [name |-> "errorCode", type |-> "int", struct |-> ""], [name |-> "info", type |-> "ptr", struct |-> "TapAPIOrderLocalInputRsp"]>>,
        sets |-> <<<<"task_id", "sessionID">>, <<"task_int", "errorCode">>, <<"task_data", "info">>>>],
    OnRspOrderLocalModify |-> [task_name |-> "ONRSPORDERLOCALMODIFY",
        params |-> <<[name |-> "sessionID", type |-> "unsigned int", struct |-> ""], [name |-> "errorCode", type |-> "int", struct |-> ""], [name |-> "info", type |-> "ptr", struct |-> "TapAPIOrderLocalModifyRsp"]>>,
        sets |-> <<<<"task_id", "sessionID">>, <<"task_int", "errorCode">>, <<"task_data", "info">>>>],
    OnRspOrderLocalTransfer |-> [task_name |-> "ONRSPORDERLOCALTRANSFER",
        params |-> <<[name |-> "sessionID", type |-> "unsigned int", struct |-> ""], [name |-> "errorCode", type |-> "int", struct |-> ""], [name |-> "info", type |-> "ptr", struct |-> "TapAPIOrderLocalTransferRsp"]>>,
        sets |-> <<<<"task_id", "sessionID">>, <<"task_int", "errorCode">>, <<"task_data", "info">>>>],
    OnRspFillLocalInput |-> [task_name |-> "ONRSPFILLLOCALINPUT",
        params |-> <<[name |-> "sessionID", type |-> "unsigned int", struct |-> ""], [name |-> "errorCode", type |-> "int", struct |-> ""], [name |-> "info", type |-> "ptr", struct |-> "TapAPIFillLocalInputRsp"]>>,
        sets |-> <<<<"task_id", "sessionID">>, <<"task_int", "errorCode">>, <<"task_data", "info">>>>],
    OnRspFillLocalRemove |-> [task_name |-> "ONRSPFILLLOCALREMOVE",
        params |-> <<[name |-> "sessionID", type |-> "unsigned int", struct |-> ""], [name |-> "errorCode", type |-> "int", struct |-> ""], [name |-> "info", type |-> "ptr", struct |-> "TapAPIFillLocalRemoveRsp"]>>,
        sets |-> <<<<"task_id", "sessionID">>, <<"task_int", "errorCode">>, <<"task_data", "info">>>>] ]

SwitchCode ==
  [ ONCONNECT |-> "processConnect",
    ONRSPLOGIN |-> "processRspLogin",
    ONRTNCONTACTINFO |-> "processRtnContactInfo",
    ONRSPREQUESTVERTIFICATECODE |-> "processRspRequestVertificateCode",
    ONEXPRIATIONDATE |-> "processExpriationDate",
    ONAPIREADY |-> "processAPIReady",
    ONDISCONNECT |-> "processDisconnect",
    ONRSPCHANGEPASSWORD |-> "processRspChangePassword",
    ONRSPAUTHPASSWORD |-> "processRspAuthPassword",
    ONRSPQRYTRADINGDATE |-> "processRspQryTradingDate",
    ONRSPSETRESERVEDINFO |-> "processRspSetReservedInfo",
    ONRSPQRYACCOUNT |-> "processRspQryAccount",
    ONRSPQRYFUND |-> "processRspQryFund",
    ONRTNFUND |-> "processRtnFund",
    ONRSPQRYEXCHANGE |-> "processRspQryExchange",
    ONRSPQRYCOMMODITY |-> "processRspQryCommodity",
    ONRSPQRYCONTRACT |-> "processRspQryContract",
    ONRTNCONTRACT |-> "processRtnContract",
    ONRSPORDERACTION |-> "processRspOrderAction",
    ONRTNORDER |-> "processRtnOrder",
    ONRSPQRYORDER |-> "processRspQryOrder",
    ONRSPQRYORDERPROCESS |-> "processRspQryOrderProcess",
    ONRSPQRYFILL |-> "processRspQryFill",
    ONRTNFILL |-> "processRtnFill",
    ONRSPQRYPOSITION |-> "processRspQryPosition",
    ONRTNPOSITION |-> "processRtnPosition",
    ONRSPQRYPOSITIONSUMMARY |-> "processRspQryPositionSummary",
    ONRTNPOSITIONSUMMARY |-> "processRtnPositionSummary",
    ONRTNPOSITIONPROFIT |-> "processRtnPositionProfit",
    ONRSPQRYCURRENCY |-> "processRspQryCurrency",
    ONRSPQRYTRADEMESSAGE |-> "processRspQryTradeMessage",
    ONRTNTRADEMESSAGE |-> "processRtnTradeMessage",
    ONRSPQRYHISORDER |-> "processRspQryHisOrder",
    ONRSPQRYHISORDERPROCESS |-> "processRspQryHisOrderProcess",
    ONRSPQRYHISMATCH |-> "processRspQryHisMatch",
    ONRSPQRYHISPOSITION |-> "processRspQryHisPosition",
    ONRSPQRYHISDELIVERY |-> "processRspQryHisDelivery",
    ONRSPQRYACCOUNTCASHADJUST |-> "processRspQryAccountCashAdjust",
    ONRSPQRYBILL |-> "processRspQryBill",
    ONRSPQRYACCOUNTFEERENT |-> "processRspQryAccountFeeRent",
    ONRSPQRYACCOUNTMARGINRENT |-> "processRspQryAccountMarginRent",
    ONRSPHKMARKETORDERINSERT |-> "processRspHKMarketOrderInsert",
    ONRSPHKMARKETORDERDELETE |-> "processRspHKMarketOrderDelete",
    ONHKMARKETQUOTENOTICE |-> "processHKMarketQuoteNotice",
    ONRSPORDERLOCALREMOVE |-> "processRspOrderLocalRemove",
    ONRSPORDERLOCALINPUT |-> "processRspOrderLocalInput",
    ONRSPORDERLOCALMODIFY |-> "processRspOrderLocalModify",
    ONRSPORDERLOCALTRANSFER |-> "processRspOrderLocalTransfer",
    ONRSPFILLLOCALINPUT |-> "processRspFillLocalInput",
    ONRSPFILLLOCALREMOVE |-> "processRspFillLocalRemove" ]

ProcessCode ==
  [ processConnect |-> [gil |-> FALSE, handler |-> "onConnect",
        args |-> <<>>],
    processRspLogin |-> [gil |-> TRUE, handler |-> "onRspLogin",
        args |-> <<"task_int", "data">>],
    processRtnContactInfo |-> [gil |-> TRUE, handler |-> "onRtnContactInfo",
        args |-> <<"task_int", "task_last", "task_string">>],
    processRspRequestVertificateCode |-> [gil |-> TRUE, handler |-> "onRspRequestVertificateCode",
        args |-> <<"task_id", "task_int", "data">>],
    processExpriationDate |-> [gil |-> TRUE, handler |-> "onExpriationDate",
        args |-> <<"task_string", "task_int">>],
    processAPIReady |-> [gil |-> TRUE, handler |-> "onAPIReady",
        args |-> <<"task_int">>],
    processDisconnect |-> [gil |-> TRUE, handler |-> "onDisconnect",
        args |-> <<"task_int">>],
    processRspChangePassword |-> [gil |-> TRUE, handler |-> "onRspChangePassword",
        args |-> <<"task_id", "task_int">>],
    processRspAuthPassword |-> [gil |-> TRUE, handler |-> "onRspAuthPassword",
        args |-> <<"task_id", "task_int">>],
    processRspQryTradingDate |-> [gil |-> TRUE, handler |-> "onRspQryTradingDate",
        args |-> <<"task_id", "task_int", "data">>],
    processRspSetReservedInfo |-> [gil |-> TRUE, handler |-> "onRspSetReservedInfo",
        args |-> <<"task_id", "task_int", "task_string">>],
    processRspQryAccount |-> [gil |-> TRUE, handler |-> "onRspQryAccount",
        args |-> <<"task_id", "task_id", "task_last", "data">>],
    processRspQryFund |-> [gil |-> TRUE, handler |-> "onRspQryFund",
        args |-> <<"task_id", "task_int", "task_last", "data">>],
    processRtnFund |-> [gil |-> TRUE, handler |-> "onRtnFund",
        args |-> <<"data">>],
    processRspQryExchange |-> [gil |-> TRUE, handler |-> "onRspQryExchange",
        args |-> <<"task_id", "task_int", "task_last", "data">>],
    processRspQryCommodity |-> [gil |-> TRUE, handler |-> "onRspQryCommodity",
        args |-> <<"task_id", "task_int", "task_last", "data">>],
    processRspQryContract |-> [gil |-> TRUE, handler |-> "onRspQryContract",
        args |-> <<"task_id", "task_int", "task_last", "data">>],
    processRtnContract |-> [gil |-> TRUE, handler |-> "onRtnContract",
        args |-> <<"data">>],
    processRspOrderAction |-> [gil |-> TRUE, handler |-> "onRspOrderAction",
        args |-> <<"task_id", "task_int", "data">>],
    processRtnOrder |-> [gil |-> TRUE, handler |-> "onRtnOrder",
        args |-> <<"data">>],
    processRspQryOrder |-> [gil |-> TRUE, handler |-> "onRspQryOrder",
        args |-> <<"task_id", "task_int", "task_last", "data">>],
    processRspQryOrderProcess |-> [gil |-> TRUE, handler |-> "onRspQryOrderProcess",
        args |-> <<"task_id", "task_int", "task_last", "data">>],
    processRspQryFill |-> [gil |-> TRUE, handler |-> "onRspQryFill",
        args |-> <<"task_id", "task_int", "task_last", "data">>],
    processRtnFill |-> [gil |-> TRUE, handler |-> "onRtnFill",
        args |-> <<"data">>],
    processRspQryPosition |-> [gil |-> TRUE, handler |-> "onRspQryPosition",
        args |-> <<"task_id", "task_int", "task_last", "data">>],
    processRtnPosition |-> [gil |-> TRUE, handler |-> "onRtnPosition",
        args |-> <<"data">>],
    processRspQryPositionSummary |-> [gil |-> TRUE, handler |-> "onRspQryPositionSummary",
        args |-> <<"task_id", "task_int", "task_last", "data">>],
    processRtnPositionSummary |-> [gil |-> TRUE, handler |-> "onRtnPositionSummary",
        args |-> <<"data">>],
    processRtnPositionProfit |-> [gil |-> TRUE, handler |-> "onRtnPositionProfit",
        args |-> <<"data">>],
    processRspQryCurrency |-> [gil |-> TRUE, handler |-> "onRspQryCurrency",
        args |-> <<"task_id", "task_int", "task_last", "data">>],
    processRspQryTradeMessage |-> [gil |-> TRUE, handler |-> "onRspQryTradeMessage",
        args |-> <<"task_id", "task_int", "task_last", "data">>],
    processRtnTradeMessage |-> [gil |-> TRUE, handler |-> "onRtnTradeMessage",
        args |-> <<"data">>],
    processRspQryHisOrder |-> [gil |-> TRUE, handler |-> "onRspQryHisOrder",
        args |-> <<"task_id", "task_int", "task_last", "data">>],
    processRspQryHisOrderProcess |-> [gil |-> TRUE, handler |-> "onRspQryHisOrderProcess",
        args |-> <<"task_id", "task_int", "task_last", "data">>],
    processRspQryHisMatch |-> [gil |-> TRUE, handler |-> "onRspQryHisMatch",
        args |-> <<"task_id", "task_int", "task_last", "data">>],
    processRspQryHisPosition |-> [gil |-> TRUE, handler |-> "onRspQryHisPosition",
        args |-> <<"task_id", "task_int", "task_last", "data">>],
    processRspQryHisDelivery |-> [gil |-> TRUE, handler |-> "onRspQryHisDelivery",
        args |-> <<"task_id", "task_int", "task_last", "data">>],
    processRspQryAccountCashAdjust |-> [gil |-> TRUE, handler |-> "onRspQryAccountCashAdjust",
        args |-> <<"task_id", "task_int", "task_last", "data">>],
    processRspQryBill |-> [gil |-> TRUE, handler |-> "onRspQryBill",
        args |-> <<"task_id", "task_int", "task_last", "data">>],
    processRspQryAccountFeeRent |-> [gil |-> TRUE, handler |-> "onRspQryAccountFeeRent",
        args |-> <<"task_id", "task_int", "task_last", "data">>],
    processRspQryAccountMarginRent |-> [gil |-> TRUE, handler |-> "onRspQryAccountMarginRent",
        args |-> <<"task_id", "task_int", "task_last", "data">>],
    processRspHKMarketOrderInsert |-> [gil |-> TRUE, handler |-> "onRspHKMarketOrderInsert",
        args |-> <<"task_id", "task_int", "data">>],
    processRspHKMarketOrderDelete |-> [gil |-> TRUE, handler |-> "onRspHKMarketOrderDelete",
        args |-> <<"task_id", "task_int", "data">>],
    processHKMarketQuoteNotice |-> [gil |-> TRUE, handler |-> "onHKMarketQuoteNotice",
        args |-> <<"data">>],
    processRspOrderLocalRemove |-> [gil |-> TRUE, handler |-> "onRspOrderLocalRemove",
        args |-> <<"task_id", "task_int", "data">>],
    processRspOrderLocalInput |-> [gil |-> TRUE, handler |-> "onRspOrderLocalInput",
        args |-> <<"task_id", "task_int", "data">>],
    processRspOrderLocalModify |-> [gil |-> TRUE, handler |-> "onRspOrderLocalModify",
        args |-> <<"task_id", "task_int", "data">>],
    processRspOrderLocalTransfer |-> [gil |-> TRUE, handler |-> "onRspOrderLocalTransfer",
        args |-> <<"task_id", "task_int", "data">>],
    processRspFillLocalInput |-> [gil |-> TRUE, handler |-> "onRspFillLocalInput",
        args |-> <<"task_id", "task_int", "data">>],
    processRspFillLocalRemove |-> [gil |-> TRUE, handler |-> "onRspFillLocalRemove",
        args |-> <<"task_id", "task_int", "data">>] ]

HandlerCode ==
  [ onConnect |-> <<>>,
    onRspLogin |-> <<[name |-> "error", type |-> "int"], [name |-> "data", type |-> "dict"]>>,
    onRtnContactInfo |-> <<[name |-> "error", type |-> "int"], [name |-> "last", type |-> "bool"], [name |-> "ContactInfo", type |-> "string"]>>,
    onRspRequestVertificateCode |-> <<[name |-> "session", type |-> "int"], [name |-> "error", type |-> "int"], [name |-> "data", type |-> "dict"]>>,
    onExpriationDate |-> <<[name |-> "date", type |-> "string"], [name |-> "days", type |-> "int"]>>,
    onAPIReady |-> <<[name |-> "error", type |-> "int"]>>,
    onDisconnect |-> <<[name |-> "reasonCode", type |-> "int"]>>,
    onRspChangePassword |-> <<[name |-> "session", type |-> "int"], [name |-> "error", type |-> "int"]>>,
    onRspAuthPassword |-> <<[name |-> "session", type |-> "int"], [name |-> "error", type |-> "int"]>>,
    onRspQryTradingDate |-> <<[name |-> "session", type |-> "int"], [name |-> "error", type |-> "int"], [name |-> "data", type |-> "dict"]>>,
    onRspSetReservedInfo |-> <<[name |-> "session", type |-> "int"], [name |-> "error", type |-> "int"], [name |-> "info", type |-> "string"]>>,
    onRspQryAccount |-> <<[name |-> "session", type |-> "int"], [name |-> "session", type |-> "int"], [name |-> "last", type |-> "bool"], [name |-> "data", type |-> "dict"]>>,
    onRspQryFund |-> <<[name |-> "session", type |-> "int"], [name |-> "error", type |-> "int"], [name |-> "last", type |-> "bool"], [name |-> "data", type |-> "dict"]>>,
    onRtnFund |-> <<[name |-> "data", type |-> "dict"]>>,
    onRspQryExchange |-> <<[name |-> "session", type |-> "int"], [name |-> "error", type |-> "int"], [name |-> "last", type |-> "bool"], [name |-> "data", type |-> "dict"]>>,
    onRspQryCommodity |-> <<[name |-> "session", type |-> "int"], [name |-> "error", type |-> "int"], [name |-> "last", type |-> "bool"], [name |-> "data", type |-> "dict"]>>,
    onRspQryContract |-> <<[name |-> "session", type |-> "int"], [name |-> "error", type |-> "int"], [name |-> "last", type |-> "bool"], [name |-> "data", type |-> "dict"]>>,
    onRtnContract |-> <<[name |-> "data", type |-> "dict"]>>,
    onRspOrderAction |-> <<[name |-> "session", type |-> "int"], [name |-> "error", type |-> "int"], [name |-> "data", type |-> "dict"]>>,
    onRtnOrder |-> <<[name |-> "data", type |-> "dict"]>>,
    onRspQryOrder |-> <<[name |-> "session", type |-> "int"], [name |-> "error", type |-> "int"], [name |-> "last", type |-> "bool"], [name |-> "data", type |-> "dict"]>>,
    onRspQryOrderProcess |-> <<[name |-> "session", type |-> "int"], [name |-> "error", type |-> "int"], [name |-> "last", type |-> "bool"], [name |-> "data", type |-> "dict"]>>,
    onRspQryFill |-> <<[name |-> "session", type |-> "int"], [name |-> "error", type |-> "int"], [name |-> "last", type |-> "bool"], [name |-> "data", type |-> "dict"]>>,
    onRtnFill |-> <<[name |-> "data", type |-> "dict"]>>,
    onRspQryPosition |-> <<[name |-> "session", type |-> "int"], [name |-> "error", type |-> "int"], [name |-> "last", type |-> "bool"], [name |-> "data", type |-> "dict"]>>,
    onRtnPosition |-> <<[name |-> "data", type |-> "dict"]>>,
    onRspQryPositionSummary |-> <<[name |-> "session", type |-> "int"], [name |-> "error", type |-> "int"], [name |-> "last", type |-> "bool"], [name |-> "data", type |-> "dict"]>>,
    onRtnPositionSummary |-> <<[name |-> "data", type |-> "dict"]>>,
    onRtnPositionProfit |-> <<[name |-> "data", type |-> "dict"]>>,
    onRspQryCurrency |-> <<[name |-> "session", type |-> "int"], [name |-> "error", type |-> "int"], [name |-> "last", type |-> "bool"], [name |-> "data", type |-> "dict"]>>,
    onRspQryTradeMessage |-> <<[name |-> "session", type |-> "int"], [name |-> "error", type |-> "int"], [name |-> "last", type |-> "bool"], [name |-> "data", type |-> "dict"]>>,
    onRtnTradeMessage |-> <<[name |-> "data", type |-> "dict"]>>,
    onRspQryHisOrder |-> <<[name |-> "session", type |-> "int"], [name |-> "error", type |-> "int"], [name |-> "last", type |-> "bool"], [name |-> "data", type |-> "dict"]>>,
    onRspQryHisOrderProcess |-> <<[name |-> "session", type |-> "int"], [name |-> "error", type |-> "int"], [name |-> "last", type |-> "bool"], [name |-> "data", type |-> "dict"]>>,
    onRspQryHisMatch |-> <<[name |-> "session", type |-> "int"], [name |-> "error", type |-> "int"], [name |-> "last", type |-> "bool"], [name |-> "data", type |-> "dict"]>>,
    onRspQryHisPosition |-> <<[name |-> "session", type |-> "int"], [name |-> "error", type |-> "int"], [name |-> "last", type |-> "bool"], [name |-> "data", type |-> "dict"]>>,
    onRspQryHisDelivery |-> <<[name |-> "session", type |-> "int"], [name |-> "error", type |-> "int"], [name |-> "last", type |-> "bool"], [name |-> "data", type |-> "dict"]>>,
    onRspQryAccountCashAdjust |-> <<[name |-> "session", type |-> "int"], [name |-> "error", type |-> "int"], [name |-> "last", type |-> "bool"], [name |-> "data", type |-> "dict"]>>,
    onRspQryBill |-> <<[name |-> "session", type |-> "int"], [name |-> "error", type |-> "int"], [name |-> "last", type |-> "bool"], [name |-> "data", type |-> "dict"]>>,
    onRspQryAccountFeeRent |-> <<[name |-> "session", type |-> "int"], [name |-> "error", type |-> "int"], [name |-> "last", type |-> "bool"], [name |-> "data", type |-> "dict"]>>,
    onRspQryAccountMarginRent |-> <<[name |-> "session", type |-> "int"], [name |-> "error", type |-> "int"], [name |-> "last", type |-> "bool"], [name |-> "data", type |-> "dict"]>>,
    onRspHKMarketOrderInsert |-> <<[name |-> "session", type |-> "int"], [name |-> "error", type |-> "int"], [name |-> "data", type |-> "dict"]>>,
    onRspHKMarketOrderDelete |-> <<[name |-> "session", type |-> "int"], [name |-> "error", type |-> "int"], [name |-> "data", type |-> "dict"]>>,
    onHKMarketQuoteNotice |-> <<[name |-> "data", type |-> "dict"]>>,
    onRspOrderLocalRemove |-> <<[name |-> "session", type |-> "int"], [name |-> "error", type |-> "int"], [name |-> "data", type |-> "dict"]>>,
    onRspOrderLocalInput |-> <<[name |-> "session", type |-> "int"], [name |-> "error", type |-> "int"], [name |-> "data", type |-> "dict"]>>,
    onRspOrderLocalModify |-> <<[name |-> "session", type |-> "int"], [name |-> "error", type |-> "int"], [name |-> "data", type |-> "dict"]>>,
    onRspOrderLocalTransfer |-> <<[name |-> "session", type |-> "int"], [name |-> "error", type |-> "int"], [name |-> "data", type |-> "dict"]>>,
    onRspFillLocalInput |-> <<[name |-> "session", type |-> "int"], [name |-> "error", type |-> "int"], [name |-> "data", type |-> "dict"]>>,
    onRspFillLocalRemove |-> <<[name |-> "session", type |-> "int"], [name |-> "error", type |-> "int"], [name |-> "data", type |-> "dict"]>> ]

\* the statements of each processX function on the payload: the struct type
\* of the cast, the order of the reads and the delete, and the assignments
\* data[key] = task_data->field (through toUtf where the code calls it)
DictCode ==
  [ processConnect |-> [cast |-> "", ops |-> <<>>,
        keys |-> <<>>],
    processRspLogin |-> [cast |-> "TapAPITradeLoginRspInfo", ops |-> <<"read", "delete">>,
        keys |-> <<<<"UserNo", "toUtf", "UserNo">>, <<"UserType", "", "UserType">>, <<"UserName", "toUtf", "UserName">>,
          <<"ReservedInfo", "toUtf", "ReservedInfo">>, <<"LastLoginIP", "toUtf", "LastLoginIP">>, <<"LastLoginProt", "", "LastLoginProt">>,
          <<"LastLoginTime", "toUtf", "LastLoginTime">>, <<"LastLogoutTime", "toUtf", "LastLogoutTime">>, <<"TradeDate", "toUtf", "TradeDate">>,
          <<"LastSettleTime", "toUtf", "LastSettleTime">>, <<"StartTime", "toUtf", "StartTime">>, <<"InitTime", "toUtf", "InitTime">>>>],
    processRtnContactInfo |-> [cast |-> "", ops |-> <<>>,
        keys |-> <<>>],
    processRspRequestVertificateCode |-> [cast |-> "TapAPIRequestVertificateCodeRsp", ops |-> <<"read", "delete">>,
        keys |-> <<<<"SecondSerialID", "toUtf", "SecondSerialID">>, <<"Effective", "", "Effective">>>>],
    processExpriationDate |-> [cast |-> "", ops |-> <<>>,
        keys |-> <<>>],
    processAPIReady |-> [cast |-> "", ops |-> <<>>,
        keys |-> <<>>],
    processDisconnect |-> [cast |-> "", ops |-> <<>>,
        keys |-> <<>>],
    processRspChangePassword |-> [cast |-> "", ops |-> <<>>,
        keys |-> <<>>],
    processRspAuthPassword |-> [cast |-> "", ops |-> <<>>,
        keys |-> <<>>],
    processRspQryTradingDate |-> [cast |-> "TapAPITradingCalendarQryRsp", ops |-> <<"read", "delete">>,
        keys |-> <<<<"CurrTradeDate", "toUtf", "CurrTradeDate">>, <<"LastSettlementDate", "toUtf", "LastSettlementDate">>, <<"PromptDate", "toUtf", "PromptDate">>,
          <<"LastPromptDate", "toUtf", "LastPromptDate">>>>],
    processRspSetReservedInfo |-> [cast |-> "", ops |-> <<>>,
        keys |-> <<>>],
    processRspQryAccount |-> [cast |-> "TapAPIAccountInfo", ops |-> <<"read", "delete">>,
        keys |-> <<<<"AccountNo", "toUtf", "AccountNo">>, <<"AccountType", "", "AccountType">>, <<"AccountState", "", "AccountState">>,
          <<"AccountTradeRight", "", "AccountTradeRight">>, <<"CommodityGroupNo", "toUtf", "CommodityGroupNo">>, <<"AccountShortName", "toUtf", "AccountShortName">>,
          <<"AccountEnShortName", "toUtf", "AccountEnShortName">>>>],
    processRspQryFund |-> [cast |-> "TapAPIFundData", ops |-> <<"read", "delete">>,
        keys |-> <<<<"AccountNo", "toUtf", "AccountNo">>, <<"CurrencyGroupNo", "toUtf", "CurrencyGroupNo">>, <<"CurrencyNo", "toUtf", "CurrencyNo">>,
          <<"TradeRate", "", "TradeRate">>, <<"FutureAlg", "", "FutureAlg">>, <<"OptionAlg", "", "OptionAlg">>,
          <<"PreBalance", "", "PreBalance">>, <<"PreUnExpProfit", "", "PreUnExpProfit">>, <<"PreLMEPositionProfit", "", "PreLMEPositionProfit">>,
          <<"PreEquity", "", "PreEquity">>, <<"PreAvailable1", "", "PreAvailable1">>, <<"PreMarketEquity", "", "PreMarketEquity">>,
          <<"CashInValue", "", "CashInValue">>, <<"CashOutValue", "", "CashOutValue">>, <<"CashAdjustValue", "", "CashAdjustValue">>,
          <<"CashPledged", "", "CashPledged">>, <<"FrozenFee", "", "FrozenFee">>, <<"FrozenDeposit", "", "FrozenDeposit">>,
          <<"AccountFee", "", "AccountFee">>, <<"SwapInValue", "", "SwapInValue">>, <<"SwapOutValue", "", "SwapOutValue">>,
          <<"PremiumIncome", "", "PremiumIncome">>, <<"PremiumPay", "", "PremiumPay">>, <<"CloseProfit", "", "CloseProfit">>,
          <<"FrozenFund", "", "FrozenFund">>, <<"UnExpProfit", "", "UnExpProfit">>, <<"ExpProfit", "", "ExpProfit">>,
          <<"PositionProfit", "", "PositionProfit">>, <<"LmePositionProfit", "", "LmePositionProfit">>, <<"OptionMarketValue", "", "OptionMarketValue">>,
          <<"AccountIntialMargin", "", "AccountIntialMargin">>, <<"AccountMaintenanceMargin", "", "AccountMaintenanceMargin">>, <<"UpperInitalMargin", "", "UpperInitalMargin">>,
          <<"UpperMaintenanceMargin", "", "UpperMaintenanceMargin">>, <<"Discount", "", "Discount">>, <<"Balance", "", "Balance">>,
          <<"Equity", "", "Equity">>, <<"Available", "", "Available">>, <<"CanDraw", "", "CanDraw">>,
          <<"MarketEquity", "", "MarketEquity">>, <<"AuthMoney", "", "AuthMoney">>>>],
    processRtnFund |-> [cast |-> "TapAPIFundData", ops |-> <<"read", "delete">>,
        keys |-> <<<<"AccountNo", "toUtf", "AccountNo">>, <<"CurrencyGroupNo", "toUtf", "CurrencyGroupNo">>, <<"CurrencyNo", "toUtf", "CurrencyNo">>,
          <<"TradeRate", "", "TradeRate">>, <<"FutureAlg", "", "FutureAlg">>, <<"OptionAlg", "", "OptionAlg">>,
          <<"PreBalance", "", "PreBalance">>, <<"PreUnExpProfit", "", "PreUnExpProfit">>, <<"PreLMEPositionProfit", "", "PreLMEPositionProfit">>,
          <<"PreEquity", "", "PreEquity">>, <<"PreAvailable1", "", "PreAvailable1">>, <<"PreMarketEquity", "", "PreMarketEquity">>,
          <<"CashInValue", "", "CashInValue">>, <<"CashOutValue", "", "CashOutValue">>, <<"CashAdjustValue", "", "CashAdjustValue">>,
          <<"CashPledged", "", "CashPledged">>, <<"FrozenFee", "", "FrozenFee">>, <<"FrozenDeposit", "", "FrozenDeposit">>,
          <<"AccountFee", "", "AccountFee">>, <<"SwapInValue", "", "SwapInValue">>, <<"SwapOutValue", "", "SwapOutValue">>,
          <<"PremiumIncome", "", "PremiumIncome">>, <<"PremiumPay", "", "PremiumPay">>, <<"CloseProfit", "", "CloseProfit">>,
          <<"FrozenFund", "", "FrozenFund">>, <<"UnExpProfit", "", "UnExpProfit">>, <<"ExpProfit", "", "ExpProfit">>,
          <<"PositionProfit", "", "PositionProfit">>, <<"LmePositionProfit", "", "LmePositionProfit">>, <<"OptionMarketValue", "", "OptionMarketValue">>,
          <<"AccountIntialMargin", "", "AccountIntialMargin">>, <<"AccountMaintenanceMargin", "", "AccountMaintenanceMargin">>, <<"UpperInitalMargin", "", "UpperInitalMargin">>,
          <<"UpperMaintenanceMargin", "", "UpperMaintenanceMargin">>, <<"Discount", "", "Discount">>, <<"Balance", "", "Balance">>,
          <<"Equity", "", "Equity">>, <<"Available", "", "Available">>, <<"CanDraw", "", "CanDraw">>,
          <<"MarketEquity", "", "MarketEquity">>, <<"AuthMoney", "", "AuthMoney">>>>],
    processRspQryExchange |-> [cast |-> "TapAPIExchangeInfo", ops |-> <<"read", "delete">>,
        keys |-> <<<<"ExchangeNo", "toUtf", "ExchangeNo">>, <<"ExchangeName", "toUtf", "ExchangeName">>>>],
    processRspQryCommodity |-> [cast |-> "TapAPICommodityInfo", ops |-> <<"read", "delete">>,
        keys |-> <<<<"ExchangeNo", "toUtf", "ExchangeNo">>, <<"CommodityType", "", "CommodityType">>, <<"CommodityNo", "toUtf", "CommodityNo">>,
          <<"CommodityName", "toUtf", "CommodityName">>, <<"CommodityEngName", "toUtf", "CommodityEngName">>, <<"RelateExchangeNo", "toUtf", "RelateExchangeNo">>,
          <<"RelateCommodityType", "", "RelateCommodityType">>, <<"RelateCommodityNo", "toUtf", "RelateCommodityNo">>, <<"RelateExchangeNo2", "toUtf", "RelateExchangeNo2">>,
          <<"RelateCommodityType2", "", "RelateCommodityType2">>, <<"RelateCommodityNo2", "toUtf", "RelateCommodityNo2">>, <<"CurrencyGroupNo", "toUtf", "CurrencyGroupNo">>,
          <<"TradeCurrency", "toUtf", "TradeCurrency">>, <<"ContractSize", "", "ContractSize">>, <<"OpenCloseMode", "", "OpenCloseMode">>,
          <<"StrikePriceTimes", "", "StrikePriceTimes">>, <<"CommodityTickSize", "", "CommodityTickSize">>, <<"CommodityDenominator", "", "CommodityDenominator">>,
          <<"CmbDirect", "", "CmbDirect">>, <<"DeliveryMode", "", "DeliveryMode">>, <<"DeliveryDays", "", "DeliveryDays">>,
          <<"AddOneTime", "toUtf", "AddOneTime">>, <<"CommodityTimeZone", "", "CommodityTimeZone">>, <<"IsAddOne", "", "IsAddOne">>>>],
    processRspQryContract |-> [cast |-> "TapAPITradeContractInfo", ops |-> <<"read", "delete">>,
        keys |-> <<<<"ExchangeNo", "toUtf", "ExchangeNo">>, <<"CommodityType", "", "CommodityType">>, <<"CommodityNo", "toUtf", "CommodityNo">>,
          <<"ContractNo1", "toUtf", "ContractNo1">>, <<"StrikePrice1", "toUtf", "StrikePrice1">>, <<"CallOrPutFlag1", "", "CallOrPutFlag1">>,
          <<"ContractNo2", "toUtf", "ContractNo2">>, <<"StrikePrice2", "toUtf", "StrikePrice2">>, <<"CallOrPutFlag2", "", "CallOrPutFlag2">>,
          <<"ContractType", "", "ContractType">>, <<"QuoteUnderlyingContract", "toUtf", "QuoteUnderlyingContract">>, <<"ContractName", "toUtf", "ContractName">>,
          <<"ContractExpDate", "toUtf", "ContractExpDate">>, <<"LastTradeDate", "toUtf", "LastTradeDate">>, <<"FirstNoticeDate", "toUtf", "FirstNoticeDate">>>>],
    processRtnContract |-> [cast |-> "TapAPITradeContractInfo", ops |-> <<"read", "delete">>,
        keys |-> <<<<"ExchangeNo", "toUtf", "ExchangeNo">>, <<"CommodityType", "", "CommodityType">>, <<"CommodityNo", "toUtf", "CommodityNo">>,
          <<"ContractNo1", "toUtf", "ContractNo1">>, <<"StrikePrice1", "toUtf", "StrikePrice1">>, <<"CallOrPutFlag1", "", "CallOrPutFlag1">>,
          <<"ContractNo2", "toUtf", "ContractNo2">>, <<"StrikePrice2", "toUtf", "StrikePrice2">>, <<"CallOrPutFlag2", "", "CallOrPutFlag2">>,
          <<"ContractType", "", "ContractType">>, <<"QuoteUnderlyingContract", "toUtf", "QuoteUnderlyingContract">>, <<"ContractName", "toUtf", "ContractName">>,
          <<"ContractExpDate", "toUtf", "ContractExpDate">>, <<"LastTradeDate", "toUtf", "LastTradeDate">>, <<"FirstNoticeDate", "toUtf", "FirstNoticeDate">>>>],
    processRspOrderAction |-> [cast |-> "TapAPIOrderActionRsp", ops |-> <<"read", "delete">>,
        keys |-> <<<<"ActionType", "", "ActionType">>, <<"OrderInfo", "", "OrderInfo">>>>],
    processRtnOrder |-> [cast |-> "TapAPIOrderInfoNotice", ops |-> <<"read", "delete">>,
        keys |-> <<<<"SessionID", "", "SessionID">>, <<"ErrorCode", "", "ErrorCode">>, <<"OrderInfo", "", "OrderInfo">>>>],
    processRspQryOrder |-> [cast |-> "TapAPIOrderInfo", ops |-> <<"read", "delete">>,
        keys |-> <<<<"AccountNo", "toUtf", "AccountNo">>, <<"ExchangeNo", "toUtf", "ExchangeNo">>, <<"CommodityType", "", "CommodityType">>,
          <<"CommodityNo", "toUtf", "CommodityNo">>, <<"ContractNo", "toUtf", "ContractNo">>, <<"StrikePrice", "toUtf", "StrikePrice">>,
          <<"CallOrPutFlag", "", "CallOrPutFlag">>, <<"ContractNo2", "toUtf", "ContractNo2">>, <<"StrikePrice2", "toUtf", "StrikePrice2">>,
          <<"CallOrPutFlag2", "", "CallOrPutFlag2">>, <<"OrderType", "", "OrderType">>, <<"OrderSource", "", "OrderSource">>,
          <<"TimeInForce", "", "TimeInForce">>, <<"ExpireTime", "toUtf", "ExpireTime">>, <<"IsRiskOrder", "", "IsRiskOrder">>,
          <<"OrderSide", "", "OrderSide">>, <<"PositionEffect", "", "PositionEffect">>, <<"PositionEffect2", "", "PositionEffect2">>,
          <<"InquiryNo", "toUtf", "InquiryNo">>, <<"HedgeFlag", "", "HedgeFlag">>, <<"OrderPrice", "", "OrderPrice">>,
          <<"OrderPrice2", "", "OrderPrice2">>, <<"StopPrice", "", "StopPrice">>, <<"OrderQty", "", "OrderQty">>,
          <<"OrderMinQty", "", "OrderMinQty">>, <<"RefInt", "", "RefInt">>, <<"RefDouble", "", "RefDouble">>,
          <<"RefString", "toUtf", "RefString">>, <<"MinClipSize", "", "MinClipSize">>, <<"MaxClipSize", "", "MaxClipSize">>,
          <<"LicenseNo", "toUtf", "LicenseNo">>, <<"ServerFlag", "", "ServerFlag">>, <<"OrderNo", "toUtf", "OrderNo">>,
          <<"ClientOrderNo", "toUtf", "ClientOrderNo">>, <<"ClientID", "toUtf", "ClientID">>, <<"TacticsType", "", "TacticsType">>,
          <<"TriggerCondition", "", "TriggerCondition">>, <<"TriggerPriceType", "", "TriggerPriceType">>, <<"AddOneIsValid", "", "AddOneIsValid">>,
          <<"ClientLocalIP", "toUtf", "ClientLocalIP">>, <<"ClientMac", "toUtf", "ClientMac">>, <<"ClientIP", "toUtf", "ClientIP">>,
          <<"OrderStreamID", "", "OrderStreamID">>, <<"UpperNo", "toUtf", "UpperNo">>, <<"UpperChannelNo", "toUtf", "UpperChannelNo">>,
          <<"OrderLocalNo", "toUtf", "OrderLocalNo">>, <<"UpperStreamID", "", "UpperStreamID">>, <<"OrderSystemNo", "toUtf", "OrderSystemNo">>,
          <<"OrderExchangeSystemNo", "toUtf", "OrderExchangeSystemNo">>, <<"OrderParentSystemNo", "toUtf", "OrderParentSystemNo">>, <<"OrderInsertUserNo", "toUtf", "OrderInsertUserNo">>,
          <<"OrderInsertTime", "toUtf", "OrderInsertTime">>, <<"OrderCommandUserNo", "toUtf", "OrderCommandUserNo">>, <<"OrderUpdateUserNo", "toUtf", "OrderUpdateUserNo">>,
          <<"OrderUpdateTime", "toUtf", "OrderUpdateTime">>, <<"OrderState", "", "OrderState">>, <<"OrderMatchPrice", "", "OrderMatchPrice">>,
          <<"OrderMatchPrice2", "", "OrderMatchPrice2">>, <<"OrderMatchQty", "", "OrderMatchQty">>, <<"OrderMatchQty2", "", "OrderMatchQty2">>,
          <<"ErrorCode", "", "ErrorCode">>, <<"ErrorText", "toUtf", "ErrorText">>, <<"IsBackInput", "", "IsBackInput">>,
          <<"IsDeleted", "", "IsDeleted">>, <<"IsAddOne", "", "IsAddOne">>>>],
    processRspQryOrderProcess |-> [cast |-> "TapAPIOrderInfo", ops |-> <<"read", "delete">>,
        keys |-> <<<<"AccountNo", "toUtf", "AccountNo">>, <<"ExchangeNo", "toUtf", "ExchangeNo">>, <<"CommodityType", "", "CommodityType">>,
          <<"CommodityNo", "toUtf", "CommodityNo">>, <<"ContractNo", "toUtf", "ContractNo">>, <<"StrikePrice", "toUtf", "StrikePrice">>,
          <<"CallOrPutFlag", "", "CallOrPutFlag">>, <<"ContractNo2", "toUtf", "ContractNo2">>, <<"StrikePrice2", "toUtf", "StrikePrice2">>,
          <<"CallOrPutFlag2", "", "CallOrPutFlag2">>, <<"OrderType", "", "OrderType">>, <<"OrderSource", "", "OrderSource">>,
          <<"TimeInForce", "", "TimeInForce">>, <<"ExpireTime", "toUtf", "ExpireTime">>, <<"IsRiskOrder", "", "IsRiskOrder">>,
          <<"OrderSide", "", "OrderSide">>, <<"PositionEffect", "", "PositionEffect">>, <<"PositionEffect2", "", "PositionEffect2">>,
          <<"InquiryNo", "toUtf", "InquiryNo">>, <<"HedgeFlag", "", "HedgeFlag">>, <<"OrderPrice", "", "OrderPrice">>,
          <<"OrderPrice2", "", "OrderPrice2">>, <<"StopPrice", "", "StopPrice">>, <<"OrderQty", "", "OrderQty">>,
          <<"OrderMinQty", "", "OrderMinQty">>, <<"RefInt", "", "RefInt">>, <<"RefDouble", "", "RefDouble">>,
          <<"RefString", "toUtf", "RefString">>, <<"MinClipSize", "", "MinClipSize">>, <<"MaxClipSize", "", "MaxClipSize">>,
          <<"LicenseNo", "toUtf", "LicenseNo">>, <<"ServerFlag", "", "ServerFlag">>, <<"OrderNo", "toUtf", "OrderNo">>,
          <<"ClientOrderNo", "toUtf", "ClientOrderNo">>, <<"ClientID", "toUtf", "ClientID">>, <<"TacticsType", "", "TacticsType">>,
          <<"TriggerCondition", "", "TriggerCondition">>, <<"TriggerPriceType", "", "TriggerPriceType">>, <<"AddOneIsValid", "", "AddOneIsValid">>,
          <<"ClientLocalIP", "toUtf", "ClientLocalIP">>, <<"ClientMac", "toUtf", "ClientMac">>, <<"ClientIP", "toUtf", "ClientIP">>,
          <<"OrderStreamID", "", "OrderStreamID">>, <<"UpperNo", "toUtf", "UpperNo">>, <<"UpperChannelNo", "toUtf", "UpperChannelNo">>,
          <<"OrderLocalNo", "toUtf", "OrderLocalNo">>, <<"UpperStreamID", "", "UpperStreamID">>, <<"OrderSystemNo", "toUtf", "OrderSystemNo">>,
          <<"OrderExchangeSystemNo", "toUtf", "OrderExchangeSystemNo">>, <<"OrderParentSystemNo", "toUtf", "OrderParentSystemNo">>, <<"OrderInsertUserNo", "toUtf", "OrderInsertUserNo">>,
          <<"OrderInsertTime", "toUtf", "OrderInsertTime">>, <<"OrderCommandUserNo", "toUtf", "OrderCommandUserNo">>, <<"OrderUpdateUserNo", "toUtf", "OrderUpdateUserNo">>,
          <<"OrderUpdateTime", "toUtf", "OrderUpdateTime">>, <<"OrderState", "", "OrderState">>, <<"OrderMatchPrice", "", "OrderMatchPrice">>,
          <<"OrderMatchPrice2", "", "OrderMatchPrice2">>, <<"OrderMatchQty", "", "OrderMatchQty">>, <<"OrderMatchQty2", "", "OrderMatchQty2">>,
          <<"ErrorCode", "", "ErrorCode">>, <<"ErrorText", "toUtf", "ErrorText">>, <<"IsBackInput", "", "IsBackInput">>,
          <<"IsDeleted", "", "IsDeleted">>, <<"IsAddOne", "", "IsAddOne">>>>],
    processRspQryFill |-> [cast |-> "TapAPIFillInfo", ops |-> <<"read", "delete">>,
        keys |-> <<<<"AccountNo", "toUtf", "AccountNo">>, <<"ExchangeNo", "toUtf", "ExchangeNo">>, <<"CommodityType", "", "CommodityType">>,
          <<"CommodityNo", "toUtf", "CommodityNo">>, <<"ContractNo", "toUtf", "ContractNo">>, <<"StrikePrice", "toUtf", "StrikePrice">>,
          <<"CallOrPutFlag", "", "CallOrPutFlag">>, <<"MatchSource", "", "MatchSource">>, <<"MatchSide", "", "MatchSide">>,
          <<"PositionEffect", "", "PositionEffect">>, <<"ServerFlag", "", "ServerFlag">>, <<"OrderNo", "toUtf", "OrderNo">>,
          <<"OrderSystemNo", "toUtf", "OrderSystemNo">>, <<"MatchNo", "toUtf", "MatchNo">>, <<"UpperMatchNo", "toUtf", "UpperMatchNo">>,
          <<"ExchangeMatchNo", "toUtf", "ExchangeMatchNo">>, <<"MatchDateTime", "toUtf", "MatchDateTime">>, <<"UpperMatchDateTime", "toUtf", "UpperMatchDateTime">>,
          <<"UpperNo", "toUtf", "UpperNo">>, <<"MatchPrice", "", "MatchPrice">>, <<"MatchQty", "", "MatchQty">>,
          <<"IsDeleted", "", "IsDeleted">>, <<"IsAddOne", "", "IsAddOne">>, <<"FeeCurrencyGroup", "toUtf", "FeeCurrencyGroup">>,
          <<"FeeCurrency", "toUtf", "FeeCurrency">>, <<"FeeValue", "", "FeeValue">>, <<"IsManualFee", "", "IsManualFee">>,
          <<"ClosePrositionPrice", "", "ClosePrositionPrice">>>>],
    processRtnFill |-> [cast |-> "TapAPIFillInfo", ops |-> <<"read", "delete">>,
        keys |-> <<<<"AccountNo", "toUtf", "AccountNo">>, <<"ExchangeNo", "toUtf", "ExchangeNo">>, <<"CommodityType", "", "CommodityType">>,
          <<"CommodityNo", "toUtf", "CommodityNo">>, <<"ContractNo", "toUtf", "ContractNo">>, <<"StrikePrice", "toUtf", "StrikePrice">>,
          <<"CallOrPutFlag", "", "CallOrPutFlag">>, <<"MatchSource", "", "MatchSource">>, <<"MatchSide", "", "MatchSide">>,
          <<"PositionEffect", "", "PositionEffect">>, <<"ServerFlag", "", "ServerFlag">>, <<"OrderNo", "toUtf", "OrderNo">>,
          <<"OrderSystemNo", "toUtf", "OrderSystemNo">>, <<"MatchNo", "toUtf", "MatchNo">>, <<"UpperMatchNo", "toUtf", "UpperMatchNo">>,
          <<"ExchangeMatchNo", "toUtf", "ExchangeMatchNo">>, <<"MatchDateTime", "toUtf", "MatchDateTime">>, <<"UpperMatchDateTime", "toUtf", "UpperMatchDateTime">>,
          <<"UpperNo", "toUtf", "UpperNo">>, <<"MatchPrice", "", "MatchPrice">>, <<"MatchQty", "", "MatchQty">>,
          <<"IsDeleted", "", "IsDeleted">>, <<"IsAddOne", "", "IsAddOne">>, <<"FeeCurrencyGroup", "toUtf", "FeeCurrencyGroup">>,
          <<"FeeCurrency", "toUtf", "FeeCurrency">>, <<"FeeValue", "", "FeeValue">>, <<"IsManualFee", "", "IsManualFee">>,
          <<"ClosePrositionPrice", "", "ClosePrositionPrice">>>>],
    processRspQryPosition |-> [cast |-> "TapAPIPositionInfo", ops |-> <<"read", "delete">>,
        keys |-> <<<<"AccountNo", "toUtf", "AccountNo">>, <<"ExchangeNo", "toUtf", "ExchangeNo">>, <<"CommodityType", "", "CommodityType">>,
          <<"CommodityNo", "toUtf", "CommodityNo">>, <<"ContractNo", "toUtf", "ContractNo">>, <<"StrikePrice", "toUtf", "StrikePrice">>,
          <<"CallOrPutFlag", "", "CallOrPutFlag">>, <<"MatchSide", "", "MatchSide">>, <<"HedgeFlag", "", "HedgeFlag">>,
          <<"PositionNo", "toUtf", "PositionNo">>, <<"ServerFlag", "", "ServerFlag">>, <<"OrderNo", "toUtf", "OrderNo">>,
          <<"MatchNo", "toUtf", "MatchNo">>, <<"UpperNo", "toUtf", "UpperNo">>, <<"PositionPrice", "", "PositionPrice">>,
          <<"PositionQty", "", "PositionQty">>, <<"PositionStreamId", "", "PositionStreamId">>, <<"CommodityCurrencyGroup", "toUtf", "CommodityCurrencyGroup">>,
          <<"CommodityCurrency", "toUtf", "CommodityCurrency">>, <<"CalculatePrice", "", "CalculatePrice">>, <<"AccountInitialMargin", "", "AccountInitialMargin">>,
          <<"AccountMaintenanceMargin", "", "AccountMaintenanceMargin">>, <<"UpperInitialMargin", "", "UpperInitialMargin">>, <<"UpperMaintenanceMargin", "", "UpperMaintenanceMargin">>,
          <<"PositionProfit", "", "PositionProfit">>, <<"LMEPositionProfit", "", "LMEPositionProfit">>, <<"OptionMarketValue", "", "OptionMarketValue">>,
          <<"IsHistory", "", "IsHistory">>>>],
    processRtnPosition |-> [cast |-> "TapAPIPositionInfo", ops |-> <<"read", "delete">>,
        keys |-> <<<<"AccountNo", "toUtf", "AccountNo">>, <<"ExchangeNo", "toUtf", "ExchangeNo">>, <<"CommodityType", "", "CommodityType">>,
          <<"CommodityNo", "toUtf", "CommodityNo">>, <<"ContractNo", "toUtf", "ContractNo">>, <<"StrikePrice", "toUtf", "StrikePrice">>,
          <<"CallOrPutFlag", "", "CallOrPutFlag">>, <<"MatchSide", "", "MatchSide">>, <<"HedgeFlag", "", "HedgeFlag">>,
          <<"PositionNo", "toUtf", "PositionNo">>, <<"ServerFlag", "", "ServerFlag">>, <<"OrderNo", "toUtf", "OrderNo">>,
          <<"MatchNo", "toUtf", "MatchNo">>, <<"UpperNo", "toUtf", "UpperNo">>, <<"PositionPrice", "", "PositionPrice">>,
          <<"PositionQty", "", "PositionQty">>, <<"PositionStreamId", "", "PositionStreamId">>, <<"CommodityCurrencyGroup", "toUtf", "CommodityCurrencyGroup">>,
          <<"CommodityCurrency", "toUtf", "CommodityCurrency">>, <<"CalculatePrice", "", "CalculatePrice">>, <<"AccountInitialMargin", "", "AccountInitialMargin">>,
          <<"AccountMaintenanceMargin", "", "AccountMaintenanceMargin">>, <<"UpperInitialMargin", "", "UpperInitialMargin">>, <<"UpperMaintenanceMargin", "", "UpperMaintenanceMargin">>,
          <<"PositionProfit", "", "PositionProfit">>, <<"LMEPositionProfit", "", "LMEPositionProfit">>, <<"OptionMarketValue", "", "OptionMarketValue">>,
          <<"IsHistory", "", "IsHistory">>>>],
    processRspQryPositionSummary |-> [cast |-> "TapAPIPositionSummary", ops |-> <<"read", "delete">>,
        keys |-> <<<<"AccountNo", "toUtf", "AccountNo">>, <<"ExchangeNo", "toUtf", "ExchangeNo">>, <<"CommodityType", "", "CommodityType">>,
          <<"CommodityNo", "toUtf", "CommodityNo">>, <<"ContractNo", "toUtf", "ContractNo">>, <<"StrikePrice", "toUtf", "StrikePrice">>,
          <<"CallOrPutFlag", "", "CallOrPutFlag">>, <<"MatchSide", "", "MatchSide">>, <<"PositionPrice", "", "PositionPrice">>,
          <<"PositionQty", "", "PositionQty">>, <<"HisPositionQty", "", "HisPositionQty">>>>],
    processRtnPositionSummary |-> [cast |-> "TapAPIPositionSummary", ops |-> <<"read", "delete">>,
        keys |-> <<<<"AccountNo", "toUtf", "AccountNo">>, <<"ExchangeNo", "toUtf", "ExchangeNo">>, <<"CommodityType", "", "CommodityType">>,
          <<"CommodityNo", "toUtf", "CommodityNo">>, <<"ContractNo", "toUtf", "ContractNo">>, <<"StrikePrice", "toUtf", "StrikePrice">>,
          <<"CallOrPutFlag", "", "CallOrPutFlag">>, <<"MatchSide", "", "MatchSide">>, <<"PositionPrice", "", "PositionPrice">>,
          <<"PositionQty", "", "PositionQty">>, <<"HisPositionQty", "", "HisPositionQty">>>>],
    processRtnPositionProfit |-> [cast |-> "TapAPIPositionProfitNotice", ops |-> <<"read", "delete">>,
        keys |-> <<<<"IsLast", "", "IsLast">>, <<"Data", "", "Data">>>>],
    processRspQryCurrency |-> [cast |-> "TapAPICurrencyInfo", ops |-> <<"read", "delete">>,
        keys |-> <<<<"CurrencyNo", "toUtf", "CurrencyNo">>, <<"CurrencyGroupNo", "toUtf", "CurrencyGroupNo">>, <<"TradeRate", "", "TradeRate">>,
          <<"TradeRate2", "", "TradeRate2">>, <<"FutureAlg", "", "FutureAlg">>, <<"OptionAlg", "", "OptionAlg">>>>],
    processRspQryTradeMessage |-> [cast |-> "TapAPITradeMessage", ops |-> <<"read", "delete">>,
        keys |-> <<<<"SerialID", "", "SerialID">>, <<"AccountNo", "toUtf", "AccountNo">>, <<"TMsgValidDateTime", "toUtf", "TMsgValidDateTime">>,
          <<"TMsgTitle", "toUtf", "TMsgTitle">>, <<"TMsgContent", "toUtf", "TMsgContent">>, <<"TMsgType", "", "TMsgType">>,
          <<"TMsgLevel", "", "TMsgLevel">>, <<"IsSendBySMS", "", "IsSendBySMS">>, <<"IsSendByEMail", "", "IsSendByEMail">>,
          <<"Sender", "toUtf", "Sender">>, <<"SendDateTime", "toUtf", "SendDateTime">>>>],
    processRtnTradeMessage |-> [cast |-> "TapAPITradeMessage", ops |-> <<"read", "delete">>,
        keys |-> <<<<"SerialID", "", "SerialID">>, <<"AccountNo", "toUtf", "AccountNo">>, <<"TMsgValidDateTime", "toUtf", "TMsgValidDateTime">>,
          <<"TMsgTitle", "toUtf", "TMsgTitle">>, <<"TMsgContent", "toUtf", "TMsgContent">>, <<"TMsgType", "", "TMsgType">>,
          <<"TMsgLevel", "", "TMsgLevel">>, <<"IsSendBySMS", "", "IsSendBySMS">>, <<"IsSendByEMail", "", "IsSendByEMail">>,
          <<"Sender", "toUtf", "Sender">>, <<"SendDateTime", "toUtf", "SendDateTime">>>>],
    processRspQryHisOrder |-> [cast |-> "TapAPIHisOrderQryRsp", ops |-> <<"read", "delete">>,
        keys |-> <<<<"Date", "toUtf", "Date">>, <<"AccountNo", "toUtf", "AccountNo">>, <<"ExchangeNo", "toUtf", "ExchangeNo">>,
          <<"CommodityType", "", "CommodityType">>, <<"CommodityNo", "toUtf", "CommodityNo">>, <<"ContractNo", "toUtf", "ContractNo">>,
          <<"StrikePrice", "toUtf", "StrikePrice">>, <<"CallOrPutFlag", "", "CallOrPutFlag">>, <<"ContractNo2", "toUtf", "ContractNo2">>,
          <<"StrikePrice2", "toUtf", "StrikePrice2">>, <<"CallOrPutFlag2", "", "CallOrPutFlag2">>, <<"OrderType", "", "OrderType">>,
          <<"OrderSource", "", "OrderSource">>, <<"TimeInForce", "", "TimeInForce">>, <<"ExpireTime", "toUtf", "ExpireTime">>,
          <<"IsRiskOrder", "", "IsRiskOrder">>, <<"OrderSide", "", "OrderSide">>, <<"PositionEffect", "", "PositionEffect">>,
          <<"PositionEffect2", "", "PositionEffect2">>, <<"InquiryNo", "toUtf", "InquiryNo">>, <<"HedgeFlag", "", "HedgeFlag">>,
          <<"OrderPrice", "", "OrderPrice">>, <<"OrderPrice2", "", "OrderPrice2">>, <<"StopPrice", "", "StopPrice">>,
          <<"OrderQty", "", "OrderQty">>, <<"OrderMinQty", "", "OrderMinQty">>, <<"OrderCanceledQty", "", "OrderCanceledQty">>,
          <<"RefInt", "", "RefInt">>, <<"RefDouble", "", "RefDouble">>, <<"RefString", "toUtf", "RefString">>,
          <<"ServerFlag", "", "ServerFlag">>, <<"OrderNo", "toUtf", "OrderNo">>, <<"OrderStreamID", "", "OrderStreamID">>,
          <<"UpperNo", "toUtf", "UpperNo">>, <<"UpperChannelNo", "toUtf", "UpperChannelNo">>, <<"OrderLocalNo", "toUtf", "OrderLocalNo">>,
          <<"UpperStreamID", "", "UpperStreamID">>, <<"OrderSystemNo", "toUtf", "OrderSystemNo">>, <<"OrderExchangeSystemNo", "toUtf", "OrderExchangeSystemNo">>,
          <<"OrderParentSystemNo", "toUtf", "OrderParentSystemNo">>, <<"OrderInsertUserNo", "toUtf", "OrderInsertUserNo">>, <<"OrderInsertTime", "toUtf", "OrderInsertTime">>,
          <<"OrderCommandUserNo", "toUtf", "OrderCommandUserNo">>, <<"OrderUpdateUserNo", "toUtf", "OrderUpdateUserNo">>, <<"OrderUpdateTime", "toUtf", "OrderUpdateTime">>,
          <<"OrderState", "", "OrderState">>, <<"OrderMatchPrice", "", "OrderMatchPrice">>, <<"OrderMatchPrice2", "", "OrderMatchPrice2">>,
          <<"OrderMatchQty", "", "OrderMatchQty">>, <<"OrderMatchQty2", "", "OrderMatchQty2">>, <<"ErrorCode", "", "ErrorCode">>,
          <<"ErrorText", "toUtf", "ErrorText">>, <<"IsBackInput", "", "IsBackInput">>, <<"IsDeleted", "", "IsDeleted">>,
          <<"IsAddOne", "", "IsAddOne">>, <<"AddOneIsValid", "", "AddOneIsValid">>, <<"MinClipSize", "", "MinClipSize">>,
          <<"MaxClipSize", "", "MaxClipSize">>, <<"LicenseNo", "toUtf", "LicenseNo">>, <<"TacticsType", "", "TacticsType">>,
          <<"TriggerCondition", "", "TriggerCondition">>, <<"TriggerPriceType", "", "TriggerPriceType">>>>],
    processRspQryHisOrderProcess |-> [cast |-> "TapAPIHisOrderProcessQryRsp", ops |-> <<"read", "delete">>,
        keys |-> <<<<"Date", "toUtf", "Date">>, <<"AccountNo", "toUtf", "AccountNo">>, <<"ExchangeNo", "toUtf", "ExchangeNo">>,
          <<"CommodityType", "", "CommodityType">>, <<"CommodityNo", "toUtf", "CommodityNo">>, <<"ContractNo", "toUtf", "ContractNo">>,
          <<"StrikePrice", "toUtf", "StrikePrice">>, <<"CallOrPutFlag", "", "CallOrPutFlag">>, <<"ContractNo2", "toUtf", "ContractNo2">>,
          <<"StrikePrice2", "toUtf", "StrikePrice2">>, <<"CallOrPutFlag2", "", "CallOrPutFlag2">>, <<"OrderType", "", "OrderType">>,
          <<"OrderSource", "", "OrderSource">>, <<"TimeInForce", "", "TimeInForce">>, <<"ExpireTime", "toUtf", "ExpireTime">>,
          <<"IsRiskOrder", "", "IsRiskOrder">>, <<"OrderSide", "", "OrderSide">>, <<"PositionEffect", "", "PositionEffect">>,
          <<"PositionEffect2", "", "PositionEffect2">>, <<"InquiryNo", "toUtf", "InquiryNo">>, <<"HedgeFlag", "", "HedgeFlag">>,
          <<"OrderPrice", "", "OrderPrice">>, <<"OrderPrice2", "", "OrderPrice2">>, <<"StopPrice", "", "StopPrice">>,
          <<"OrderQty", "", "OrderQty">>, <<"OrderMinQty", "", "OrderMinQty">>, <<"OrderCanceledQty", "", "OrderCanceledQty">>,
          <<"RefInt", "", "RefInt">>, <<"RefDouble", "", "RefDouble">>, <<"RefString", "toUtf", "RefString">>,
          <<"ServerFlag", "", "ServerFlag">>, <<"OrderNo", "toUtf", "OrderNo">>, <<"OrderStreamID", "", "OrderStreamID">>,
          <<"UpperNo", "toUtf", "UpperNo">>, <<"UpperChannelNo", "toUtf", "UpperChannelNo">>, <<"OrderLocalNo", "toUtf", "OrderLocalNo">>,
          <<"UpperStreamID", "", "UpperStreamID">>, <<"OrderSystemNo", "toUtf", "OrderSystemNo">>, <<"OrderExchangeSystemNo", "toUtf", "OrderExchangeSystemNo">>,
          <<"OrderParentSystemNo", "toUtf", "OrderParentSystemNo">>, <<"OrderInsertUserNo", "toUtf", "OrderInsertUserNo">>, <<"OrderInsertTime", "toUtf", "OrderInsertTime">>,
          <<"OrderCommandUserNo", "toUtf", "OrderCommandUserNo">>, <<"OrderUpdateUserNo", "toUtf", "OrderUpdateUserNo">>, <<"OrderUpdateTime", "toUtf", "OrderUpdateTime">>,
          <<"OrderState", "", "OrderState">>, <<"OrderMatchPrice", "", "OrderMatchPrice">>, <<"OrderMatchPrice2", "", "OrderMatchPrice2">>,
          <<"OrderMatchQty", "", "OrderMatchQty">>, <<"OrderMatchQty2", "", "OrderMatchQty2">>, <<"ErrorCode", "", "ErrorCode">>,
          <<"ErrorText", "toUtf", "ErrorText">>, <<"IsBackInput", "", "IsBackInput">>, <<"IsDeleted", "", "IsDeleted">>,
          <<"IsAddOne", "", "IsAddOne">>, <<"AddOneIsValid", "", "AddOneIsValid">>, <<"MinClipSize", "", "MinClipSize">>,
          <<"MaxClipSize", "", "MaxClipSize">>, <<"LicenseNo", "toUtf", "LicenseNo">>, <<"TacticsType", "", "TacticsType">>,
          <<"TriggerCondition", "", "TriggerCondition">>, <<"TriggerPriceType", "", "TriggerPriceType">>>>],
    processRspQryHisMatch |-> [cast |-> "TapAPIHisMatchQryRsp", ops |-> <<"read", "delete">>,
        keys |-> <<<<"SettleDate", "toUtf", "SettleDate">>, <<"TradeDate", "toUtf", "TradeDate">>, <<"AccountNo", "toUtf", "AccountNo">>,
          <<"ExchangeNo", "toUtf", "ExchangeNo">>, <<"CommodityType", "", "CommodityType">>, <<"CommodityNo", "toUtf", "CommodityNo">>,
          <<"ContractNo", "toUtf", "ContractNo">>, <<"StrikePrice", "toUtf", "StrikePrice">>, <<"CallOrPutFlag", "", "CallOrPutFlag">>,
          <<"MatchSource", "", "MatchSource">>, <<"MatchSide", "", "MatchSide">>, <<"PositionEffect", "", "PositionEffect">>,
          <<"HedgeFlag", "", "HedgeFlag">>, <<"MatchPrice", "", "MatchPrice">>, <<"MatchQty", "", "MatchQty">>,
          <<"OrderNo", "toUtf", "OrderNo">>, <<"MatchNo", "toUtf", "MatchNo">>, <<"MatchStreamID", "", "MatchStreamID">>,
          <<"UpperNo", "toUtf", "UpperNo">>, <<"MatchCmbNo", "toUtf", "MatchCmbNo">>, <<"ExchangeMatchNo", "toUtf", "ExchangeMatchNo">>,
          <<"MatchUpperStreamID", "", "MatchUpperStreamID">>, <<"CommodityCurrencyGroup", "toUtf", "CommodityCurrencyGroup">>, <<"CommodityCurrency", "toUtf", "CommodityCurrency">>,
          <<"Turnover", "", "Turnover">>, <<"PremiumIncome", "", "PremiumIncome">>, <<"PremiumPay", "", "PremiumPay">>,
          <<"AccountFee", "", "AccountFee">>, <<"AccountFeeCurrencyGroup", "toUtf", "AccountFeeCurrencyGroup">>, <<"AccountFeeCurrency", "toUtf", "AccountFeeCurrency">>,
          <<"IsManualFee", "", "IsManualFee">>, <<"AccountOtherFee", "", "AccountOtherFee">>, <<"UpperFee", "", "UpperFee">>,
          <<"UpperFeeCurrencyGroup", "toUtf", "UpperFeeCurrencyGroup">>, <<"UpperFeeCurrency", "toUtf", "UpperFeeCurrency">>, <<"IsUpperManualFee", "", "IsUpperManualFee">>,
          <<"UpperOtherFee", "", "UpperOtherFee">>, <<"MatchDateTime", "toUtf", "MatchDateTime">>, <<"UpperMatchDateTime", "toUtf", "UpperMatchDateTime">>,
          <<"CloseProfit", "", "CloseProfit">>, <<"ClosePrice", "", "ClosePrice">>, <<"CloseQty", "", "CloseQty">>,
          <<"SettleGroupNo", "toUtf", "SettleGroupNo">>, <<"OperatorNo", "toUtf", "OperatorNo">>, <<"OperateTime", "toUtf", "OperateTime">>>>],
    processRspQryHisPosition |-> [cast |-> "TapAPIHisPositionQryRsp", ops |-> <<"read", "delete">>,
        keys |-> <<<<"SettleDate", "toUtf", "SettleDate">>, <<"OpenDate", "toUtf", "OpenDate">>, <<"AccountNo", "toUtf", "AccountNo">>,
          <<"ExchangeNo", "toUtf", "ExchangeNo">>, <<"CommodityType", "", "CommodityType">>, <<"CommodityNo", "toUtf", "CommodityNo">>,
          <<"ContractNo", "toUtf", "ContractNo">>, <<"StrikePrice", "toUtf", "StrikePrice">>, <<"CallOrPutFlag", "", "CallOrPutFlag">>,
          <<"MatchSide", "", "MatchSide">>, <<"HedgeFlag", "", "HedgeFlag">>, <<"PositionPrice", "", "PositionPrice">>,
          <<"PositionQty", "", "PositionQty">>, <<"OrderNo", "toUtf", "OrderNo">>, <<"PositionNo", "toUtf", "PositionNo">>,
          <<"UpperNo", "toUtf", "UpperNo">>, <<"CurrencyGroup", "toUtf", "CurrencyGroup">>, <<"Currency", "toUtf", "Currency">>,
          <<"PreSettlePrice", "", "PreSettlePrice">>, <<"SettlePrice", "", "SettlePrice">>, <<"PositionDProfit", "", "PositionDProfit">>,
          <<"LMEPositionProfit", "", "LMEPositionProfit">>, <<"OptionMarketValue", "", "OptionMarketValue">>, <<"AccountInitialMargin", "", "AccountInitialMargin">>,
          <<"AccountMaintenanceMargin", "", "AccountMaintenanceMargin">>, <<"UpperInitialMargin", "", "UpperInitialMargin">>, <<"UpperMaintenanceMargin", "", "UpperMaintenanceMargin">>,
          <<"SettleGroupNo", "toUtf", "SettleGroupNo">>>>],
    processRspQryHisDelivery |-> [cast |-> "TapAPIHisDeliveryQryRsp", ops |-> <<"read", "delete">>,
        keys |-> <<<<"DeliveryDate", "toUtf", "DeliveryDate">>, <<"OpenDate", "toUtf", "OpenDate">>, <<"AccountNo", "toUtf", "AccountNo">>,
          <<"ExchangeNo", "toUtf", "ExchangeNo">>, <<"CommodityType", "", "CommodityType">>, <<"CommodityNo", "toUtf", "CommodityNo">>,
          <<"ContractNo", "toUtf", "ContractNo">>, <<"StrikePrice", "toUtf", "StrikePrice">>, <<"CallOrPutFlag", "", "CallOrPutFlag">>,
          <<"MatchSource", "", "MatchSource">>, <<"OpenSide", "", "OpenSide">>, <<"OpenPrice", "", "OpenPrice">>,
          <<"DeliveryPrice", "", "DeliveryPrice">>, <<"DeliveryQty", "", "DeliveryQty">>, <<"FrozenQty", "", "FrozenQty">>,
          <<"OpenNo", "toUtf", "OpenNo">>, <<"UpperNo", "toUtf", "UpperNo">>, <<"CommodityCurrencyGroupy", "toUtf", "CommodityCurrencyGroupy">>,
          <<"CommodityCurrency", "toUtf", "CommodityCurrency">>, <<"PreSettlePrice", "", "PreSettlePrice">>, <<"DeliveryProfit", "", "DeliveryProfit">>,
          <<"AccountFrozenInitialMargin", "", "AccountFrozenInitialMargin">>, <<"AccountFrozenMaintenanceMargin", "", "AccountFrozenMaintenanceMargin">>, <<"UpperFrozenInitialMargin", "", "UpperFrozenInitialMargin">>,
          <<"UpperFrozenMaintenanceMargin", "", "UpperFrozenMaintenanceMargin">>, <<"AccountFeeCurrencyGroup", "toUtf", "AccountFeeCurrencyGroup">>, <<"AccountFeeCurrency", "toUtf", "AccountFeeCurrency">>,
          <<"AccountDeliveryFee", "", "AccountDeliveryFee">>, <<"UpperFeeCurrencyGroup", "toUtf", "UpperFeeCurrencyGroup">>, <<"UpperFeeCurrency", "toUtf", "UpperFeeCurrency">>,
          <<"UpperDeliveryFee", "", "UpperDeliveryFee">>, <<"DeliveryMode", "", "DeliveryMode">>, <<"OperatorNo", "toUtf", "OperatorNo">>,
          <<"OperateTime", "toUtf", "OperateTime">>, <<"SettleGourpNo", "toUtf", "SettleGourpNo">>>>],
    processRspQryAccountCashAdjust |-> [cast |-> "TapAPIAccountCashAdjustQryRsp", ops |-> <<"read", "delete">>,
        keys |-> <<<<"Date", "toUtf", "Date">>, <<"AccountNo", "toUtf", "AccountNo">>, <<"CashAdjustType", "", "CashAdjustType">>,
          <<"CurrencyGroupNo", "toUtf", "CurrencyGroupNo">>, <<"CurrencyNo", "toUtf", "CurrencyNo">>, <<"CashAdjustValue", "", "CashAdjustValue">>,
          <<"CashAdjustRemark", "toUtf", "CashAdjustRemark">>, <<"OperateTime", "toUtf", "OperateTime">>, <<"OperatorNo", "toUtf", "OperatorNo">>,
          <<"AccountBank", "toUtf", "AccountBank">>, <<"BankAccount", "toUtf", "BankAccount">>, <<"AccountLWFlag", "", "AccountLWFlag">>,
          <<"CompanyBank", "toUtf", "CompanyBank">>, <<"InternalBankAccount", "toUtf", "InternalBankAccount">>, <<"CompanyLWFlag", "", "CompanyLWFlag">>>>],
    processRspQryBill |-> [cast |-> "TapAPIBillQryRsp", ops |-> <<"read", "delete">>,
        keys |-> <<<<"Reqdata", "", "Reqdata">>, <<"BillLen", "", "BillLen">>, <<"BillText", "", "BillText">>>>],
    processRspQryAccountFeeRent |-> [cast |-> "TapAPIAccountFeeRentQryRsp", ops |-> <<"read", "delete">>,
        keys |-> <<<<"AccountNo", "toUtf", "AccountNo">>, <<"ExchangeNo", "toUtf", "ExchangeNo">>, <<"CommodityType", "", "CommodityType">>,
          <<"CommodityNo", "toUtf", "CommodityNo">>, <<"MatchSource", "", "MatchSource">>, <<"CalculateMode", "", "CalculateMode">>,
          <<"CurrencyGroupNo", "toUtf", "CurrencyGroupNo">>, <<"CurrencyNo", "toUtf", "CurrencyNo">>, <<"OpenCloseFee", "", "OpenCloseFee">>,
          <<"CloseTodayFee", "", "CloseTodayFee">>>>],
    processRspQryAccountMarginRent |-> [cast |-> "TapAPIAccountMarginRentQryRsp", ops |-> <<"read", "delete">>,
        keys |-> <<<<"AccountNo", "toUtf", "AccountNo">>, <<"ExchangeNo", "toUtf", "ExchangeNo">>, <<"CommodityType", "", "CommodityType">>,
          <<"CommodityNo", "toUtf", "CommodityNo">>, <<"ContractNo", "toUtf", "ContractNo">>, <<"StrikePrice", "toUtf", "StrikePrice">>,
          <<"CallOrPutFlag", "", "CallOrPutFlag">>, <<"CalculateMode", "", "CalculateMode">>, <<"CurrencyGroupNo", "toUtf", "CurrencyGroupNo">>,
          <<"CurrencyNo", "toUtf", "CurrencyNo">>, <<"InitialMargin", "", "InitialMargin">>, <<"MaintenanceMargin", "", "MaintenanceMargin">>,
          <<"SellInitialMargin", "", "SellInitialMargin">>, <<"SellMaintenanceMargin", "", "SellMaintenanceMargin">>, <<"LockMargin", "", "LockMargin">>>>],
    processRspHKMarketOrderInsert |-> [cast |-> "TapAPIOrderMarketInsertRsp", ops |-> <<"read", "delete">>,
        keys |-> <<<<"AccountNo", "toUtf", "AccountNo">>, <<"ExchangeNo", "toUtf", "ExchangeNo">>, <<"CommodityType", "", "CommodityType">>,
          <<"CommodityNo", "toUtf", "CommodityNo">>, <<"ContractNo", "toUtf", "ContractNo">>, <<"StrikePrice", "toUtf", "StrikePrice">>,
          <<"CallOrPutFlag", "", "CallOrPutFlag">>, <<"OrderType", "", "OrderType">>, <<"TimeInForce", "", "TimeInForce">>,
          <<"ExpireTime", "toUtf", "ExpireTime">>, <<"OrderSource", "", "OrderSource">>, <<"BuyPositionEffect", "", "BuyPositionEffect">>,
          <<"SellPositionEffect", "", "SellPositionEffect">>, <<"OrderBuyPrice", "", "OrderBuyPrice">>, <<"OrderSellPrice", "", "OrderSellPrice">>,
          <<"OrderBuyQty", "", "OrderBuyQty">>, <<"OrderSellQty", "", "OrderSellQty">>, <<"ServerFlag", "", "ServerFlag">>,
          <<"OrderBuyNo", "toUtf", "OrderBuyNo">>, <<"OrderSellNo", "toUtf", "OrderSellNo">>, <<"AddOneIsValid", "", "AddOneIsValid">>,
          <<"OrderMarketUserNo", "toUtf", "OrderMarketUserNo">>, <<"OrderMarketTime", "toUtf", "OrderMarketTime">>, <<"RefInt", "", "RefInt">>,
          <<"RefDouble", "", "RefDouble">>, <<"RefString", "toUtf", "RefString">>, <<"ClientBuyOrderNo", "toUtf", "ClientBuyOrderNo">>,
          <<"ClientSellOrderNo", "toUtf", "ClientSellOrderNo">>, <<"ErrorCode", "", "ErrorCode">>, <<"ErrorText", "toUtf", "ErrorText">>,
          <<"ClientLocalIP", "toUtf", "ClientLocalIP">>, <<"ClientMac", "toUtf", "ClientMac">>, <<"ClientIP", "toUtf", "ClientIP">>,
          <<"Remark", "toUtf", "Remark">>>>],
    processRspHKMarketOrderDelete |-> [cast |-> "TapAPIOrderMarketDeleteRsp", ops |-> <<"read", "delete">>,
        keys |-> <<<<"AccountNo", "toUtf", "AccountNo">>, <<"ExchangeNo", "toUtf", "ExchangeNo">>, <<"CommodityType", "", "CommodityType">>,
          <<"CommodityNo", "toUtf", "CommodityNo">>, <<"ContractNo", "toUtf", "ContractNo">>, <<"StrikePrice", "toUtf", "StrikePrice">>,
          <<"CallOrPutFlag", "", "CallOrPutFlag">>, <<"OrderType", "", "OrderType">>, <<"TimeInForce", "", "TimeInForce">>,
          <<"ExpireTime", "toUtf", "ExpireTime">>, <<"OrderSource", "", "OrderSource">>, <<"BuyPositionEffect", "", "BuyPositionEffect">>,
          <<"SellPositionEffect", "", "SellPositionEffect">>, <<"OrderBuyPrice", "", "OrderBuyPrice">>, <<"OrderSellPrice", "", "OrderSellPrice">>,
          <<"OrderBuyQty", "", "OrderBuyQty">>, <<"OrderSellQty", "", "OrderSellQty">>, <<"ServerFlag", "", "ServerFlag">>,
          <<"OrderBuyNo", "toUtf", "OrderBuyNo">>, <<"OrderSellNo", "toUtf", "OrderSellNo">>, <<"AddOneIsValid", "", "AddOneIsValid">>,
          <<"OrderMarketUserNo", "toUtf", "OrderMarketUserNo">>, <<"OrderMarketTime", "toUtf", "OrderMarketTime">>, <<"RefInt", "", "RefInt">>,
          <<"RefDouble", "", "RefDouble">>, <<"RefString", "toUtf", "RefString">>, <<"ClientBuyOrderNo", "toUtf", "ClientBuyOrderNo">>,
          <<"ClientSellOrderNo", "toUtf", "ClientSellOrderNo">>, <<"ErrorCode", "", "ErrorCode">>, <<"ErrorText", "toUtf", "ErrorText">>,
          <<"ClientLocalIP", "toUtf", "ClientLocalIP">>, <<"ClientMac", "toUtf", "ClientMac">>, <<"ClientIP", "toUtf", "ClientIP">>,
          <<"Remark", "toUtf", "Remark">>>>],
    processHKMarketQuoteNotice |-> [cast |-> "TapAPIOrderQuoteMarketNotice", ops |-> <<"read", "delete">>,
        keys |-> <<<<"ExchangeNo", "toUtf", "ExchangeNo">>, <<"CommodityType", "", "CommodityType">>, <<"CommodityNo", "toUtf", "CommodityNo">>,
          <<"ContractNo", "toUtf", "ContractNo">>, <<"StrikePrice", "toUtf", "StrikePrice">>, <<"CallOrPutFlag", "", "CallOrPutFlag">>,
          <<"OrderSide", "", "OrderSide">>, <<"OrderQty", "", "OrderQty">>>>],
    processRspOrderLocalRemove |-> [cast |-> "TapAPIOrderLocalRemoveRsp", ops |-> <<"read", "delete">>,
        keys |-> <<<<"req", "", "req">>, <<"ClientLocalIP", "toUtf", "ClientLocalIP">>, <<"ClientMac", "toUtf", "ClientMac">>,
          <<"ClientIP", "toUtf", "ClientIP">>>>],
    processRspOrderLocalInput |-> [cast |-> "TapAPIOrderLocalInputRsp", ops |-> <<"read", "delete">>,
        keys |-> <<<<"AccountNo", "toUtf", "AccountNo">>, <<"ExchangeNo", "toUtf", "ExchangeNo">>, <<"CommodityType", "", "CommodityType">>,
          <<"CommodityNo", "toUtf", "CommodityNo">>, <<"ContractNo", "toUtf", "ContractNo">>, <<"StrikePrice", "toUtf", "StrikePrice">>,
          <<"CallOrPutFlag", "", "CallOrPutFlag">>, <<"ContractNo2", "toUtf", "ContractNo2">>, <<"StrikePrice2", "toUtf", "StrikePrice2">>,
          <<"CallOrPutFlag2", "", "CallOrPutFlag2">>, <<"OrderType", "", "OrderType">>, <<"OrderSource", "", "OrderSource">>,
          <<"TimeInForce", "", "TimeInForce">>, <<"ExpireTime", "toUtf", "ExpireTime">>, <<"IsRiskOrder", "", "IsRiskOrder">>,
          <<"OrderSide", "", "OrderSide">>, <<"PositionEffect", "", "PositionEffect">>, <<"PositionEffect2", "", "PositionEffect2">>,
          <<"InquiryNo", "toUtf", "InquiryNo">>, <<"HedgeFlag", "", "HedgeFlag">>, <<"OrderPrice", "", "OrderPrice">>,
          <<"OrderPrice2", "", "OrderPrice2">>, <<"StopPrice", "", "StopPrice">>, <<"OrderQty", "", "OrderQty">>,
          <<"OrderMinQty", "", "OrderMinQty">>, <<"RefInt", "", "RefInt">>, <<"RefDouble", "", "RefDouble">>,
          <<"RefString", "toUtf", "RefString">>, <<"MinClipSize", "", "MinClipSize">>, <<"MaxClipSize", "", "MaxClipSize">>,
          <<"LicenseNo", "toUtf", "LicenseNo">>, <<"ServerFlag", "", "ServerFlag">>, <<"OrderNo", "toUtf", "OrderNo">>,
          <<"ClientOrderNo", "toUtf", "ClientOrderNo">>, <<"ClientID", "toUtf", "ClientID">>, <<"TacticsType", "", "TacticsType">>,
          <<"TriggerCondition", "", "TriggerCondition">>, <<"TriggerPriceType", "", "TriggerPriceType">>, <<"AddOneIsValid", "", "AddOneIsValid">>,
          <<"ClientLocalIP", "toUtf", "ClientLocalIP">>, <<"ClientMac", "toUtf", "ClientMac">>, <<"ClientIP", "toUtf", "ClientIP">>,
          <<"OrderStreamID", "", "OrderStreamID">>, <<"UpperNo", "toUtf", "UpperNo">>, <<"UpperChannelNo", "toUtf", "UpperChannelNo">>,
          <<"OrderLocalNo", "toUtf", "OrderLocalNo">>, <<"UpperStreamID", "", "UpperStreamID">>, <<"OrderSystemNo", "toUtf", "OrderSystemNo">>,
          <<"OrderExchangeSystemNo", "toUtf", "OrderExchangeSystemNo">>, <<"OrderParentSystemNo", "toUtf", "OrderParentSystemNo">>, <<"OrderInsertUserNo", "toUtf", "OrderInsertUserNo">>,
          <<"OrderInsertTime", "toUtf", "OrderInsertTime">>, <<"OrderCommandUserNo", "toUtf", "OrderCommandUserNo">>, <<"OrderUpdateUserNo", "toUtf", "OrderUpdateUserNo">>,
          <<"OrderUpdateTime", "toUtf", "OrderUpdateTime">>, <<"OrderState", "", "OrderState">>, <<"OrderMatchPrice", "", "OrderMatchPrice">>,
          <<"OrderMatchPrice2", "", "OrderMatchPrice2">>, <<"OrderMatchQty", "", "OrderMatchQty">>, <<"OrderMatchQty2", "", "OrderMatchQty2">>,
          <<"ErrorCode", "", "ErrorCode">>, <<"ErrorText", "toUtf", "ErrorText">>, <<"IsBackInput", "", "IsBackInput">>,
          <<"IsDeleted", "", "IsDeleted">>, <<"IsAddOne", "", "IsAddOne">>>>],
    processRspOrderLocalModify |-> [cast |-> "TapAPIOrderLocalModifyRsp", ops |-> <<"read", "delete">>,
        keys |-> <<<<"AccountNo", "toUtf", "AccountNo">>, <<"ExchangeNo", "toUtf", "ExchangeNo">>, <<"CommodityType", "", "CommodityType">>,
          <<"CommodityNo", "toUtf", "CommodityNo">>, <<"ContractNo", "toUtf", "ContractNo">>, <<"StrikePrice", "toUtf", "StrikePrice">>,
          <<"CallOrPutFlag", "", "CallOrPutFlag">>, <<"ContractNo2", "toUtf", "ContractNo2">>, <<"StrikePrice2", "toUtf", "StrikePrice2">>,
          <<"CallOrPutFlag2", "", "CallOrPutFlag2">>, <<"OrderType", "", "OrderType">>, <<"OrderSource", "", "OrderSource">>,
          <<"TimeInForce", "", "TimeInForce">>, <<"ExpireTime", "toUtf", "ExpireTime">>, <<"IsRiskOrder", "", "IsRiskOrder">>,
          <<"OrderSide", "", "OrderSide">>, <<"PositionEffect", "", "PositionEffect">>, <<"PositionEffect2", "", "PositionEffect2">>,
          <<"InquiryNo", "toUtf", "InquiryNo">>, <<"HedgeFlag", "", "HedgeFlag">>, <<"OrderPrice", "", "OrderPrice">>,
          <<"OrderPrice2", "", "OrderPrice2">>, <<"StopPrice", "", "StopPrice">>, <<"OrderQty", "", "OrderQty">>,
          <<"OrderMinQty", "", "OrderMinQty">>, <<"RefInt", "", "RefInt">>, <<"RefDouble", "", "RefDouble">>,
          <<"RefString", "toUtf", "RefString">>, <<"MinClipSize", "", "MinClipSize">>, <<"MaxClipSize", "", "MaxClipSize">>,
          <<"LicenseNo", "toUtf", "LicenseNo">>, <<"ServerFlag", "", "ServerFlag">>, <<"OrderNo", "toUtf", "OrderNo">>,
          <<"ClientOrderNo", "toUtf", "ClientOrderNo">>, <<"ClientID", "toUtf", "ClientID">>, <<"TacticsType", "", "TacticsType">>,
          <<"TriggerCondition", "", "TriggerCondition">>, <<"TriggerPriceType", "", "TriggerPriceType">>, <<"AddOneIsValid", "", "AddOneIsValid">>,
          <<"ClientLocalIP", "toUtf", "ClientLocalIP">>, <<"ClientMac", "toUtf", "ClientMac">>, <<"ClientIP", "toUtf", "ClientIP">>,
          <<"OrderStreamID", "", "OrderStreamID">>, <<"UpperNo", "toUtf", "UpperNo">>, <<"UpperChannelNo", "toUtf", "UpperChannelNo">>,
          <<"OrderLocalNo", "toUtf", "OrderLocalNo">>, <<"UpperStreamID", "", "UpperStreamID">>, <<"OrderSystemNo", "toUtf", "OrderSystemNo">>,
          <<"OrderExchangeSystemNo", "toUtf", "OrderExchangeSystemNo">>, <<"OrderParentSystemNo", "toUtf", "OrderParentSystemNo">>, <<"OrderInsertUserNo", "toUtf", "OrderInsertUserNo">>,
          <<"OrderInsertTime", "toUtf", "OrderInsertTime">>, <<"OrderCommandUserNo", "toUtf", "OrderCommandUserNo">>, <<"OrderUpdateUserNo", "toUtf", "OrderUpdateUserNo">>,
          <<"OrderUpdateTime", "toUtf", "OrderUpdateTime">>, <<"OrderState", "", "OrderState">>, <<"OrderMatchPrice", "", "OrderMatchPrice">>,
          <<"OrderMatchPrice2", "", "OrderMatchPrice2">>, <<"OrderMatchQty", "", "OrderMatchQty">>, <<"OrderMatchQty2", "", "OrderMatchQty2">>,
          <<"ErrorCode", "", "ErrorCode">>, <<"ErrorText", "toUtf", "ErrorText">>, <<"IsBackInput", "", "IsBackInput">>,
          <<"IsDeleted", "", "IsDeleted">>, <<"IsAddOne", "", "IsAddOne">>>>],
    processRspOrderLocalTransfer |-> [cast |-> "TapAPIOrderLocalTransferRsp", ops |-> <<"read", "delete">>,
        keys |-> <<<<"AccountNo", "toUtf", "AccountNo">>, <<"ExchangeNo", "toUtf", "ExchangeNo">>, <<"CommodityType", "", "CommodityType">>,
          <<"CommodityNo", "toUtf", "CommodityNo">>, <<"ContractNo", "toUtf", "ContractNo">>, <<"StrikePrice", "toUtf", "StrikePrice">>,
          <<"CallOrPutFlag", "", "CallOrPutFlag">>, <<"ContractNo2", "toUtf", "ContractNo2">>, <<"StrikePrice2", "toUtf", "StrikePrice2">>,
          <<"CallOrPutFlag2", "", "CallOrPutFlag2">>, <<"OrderType", "", "OrderType">>, <<"OrderSource", "", "OrderSource">>,
          <<"TimeInForce", "", "TimeInForce">>, <<"ExpireTime", "toUtf", "ExpireTime">>, <<"IsRiskOrder", "", "IsRiskOrder">>,
          <<"OrderSide", "", "OrderSide">>, <<"PositionEffect", "", "PositionEffect">>, <<"PositionEffect2", "", "PositionEffect2">>,
          <<"InquiryNo", "toUtf", "InquiryNo">>, <<"HedgeFlag", "", "HedgeFlag">>, <<"OrderPrice", "", "OrderPrice">>,
          <<"OrderPrice2", "", "OrderPrice2">>, <<"StopPrice", "", "StopPrice">>, <<"OrderQty", "", "OrderQty">>,
          <<"OrderMinQty", "", "OrderMinQty">>, <<"RefInt", "", "RefInt">>, <<"RefDouble", "", "RefDouble">>,
          <<"RefString", "toUtf", "RefString">>, <<"MinClipSize", "", "MinClipSize">>, <<"MaxClipSize", "", "MaxClipSize">>,
          <<"LicenseNo", "toUtf", "LicenseNo">>, <<"ServerFlag", "", "ServerFlag">>, <<"OrderNo", "toUtf", "OrderNo">>,
          <<"ClientOrderNo", "toUtf", "ClientOrderNo">>, <<"ClientID", "toUtf", "ClientID">>, <<"TacticsType", "", "TacticsType">>,
          <<"TriggerCondition", "", "TriggerCondition">>, <<"TriggerPriceType", "", "TriggerPriceType">>, <<"AddOneIsValid", "", "AddOneIsValid">>,
          <<"ClientLocalIP", "toUtf", "ClientLocalIP">>, <<"ClientMac", "toUtf", "ClientMac">>, <<"ClientIP", "toUtf", "ClientIP">>,
          <<"OrderStreamID", "", "OrderStreamID">>, <<"UpperNo", "toUtf", "UpperNo">>, <<"UpperChannelNo", "toUtf", "UpperChannelNo">>,
          <<"OrderLocalNo", "toUtf", "OrderLocalNo">>, <<"UpperStreamID", "", "UpperStreamID">>, <<"OrderSystemNo", "toUtf", "OrderSystemNo">>,
          <<"OrderExchangeSystemNo", "toUtf", "OrderExchangeSystemNo">>, <<"OrderParentSystemNo", "toUtf", "OrderParentSystemNo">>, <<"OrderInsertUserNo", "toUtf", "OrderInsertUserNo">>,
          <<"OrderInsertTime", "toUtf", "OrderInsertTime">>, <<"OrderCommandUserNo", "toUtf", "OrderCommandUserNo">>, <<"OrderUpdateUserNo", "toUtf", "OrderUpdateUserNo">>,
          <<"OrderUpdateTime", "toUtf", "OrderUpdateTime">>, <<"OrderState", "", "OrderState">>, <<"OrderMatchPrice", "", "OrderMatchPrice">>,
          <<"OrderMatchPrice2", "", "OrderMatchPrice2">>, <<"OrderMatchQty", "", "OrderMatchQty">>, <<"OrderMatchQty2", "", "OrderMatchQty2">>,
          <<"ErrorCode", "", "ErrorCode">>, <<"ErrorText", "toUtf", "ErrorText">>, <<"IsBackInput", "", "IsBackInput">>,
          <<"IsDeleted", "", "IsDeleted">>, <<"IsAddOne", "", "IsAddOne">>>>],
    processRspFillLocalInput |-> [cast |-> "TapAPIFillLocalInputRsp", ops |-> <<"read", "delete">>,
        keys |-> <<<<"AccountNo", "toUtf", "AccountNo">>, <<"ExchangeNo", "toUtf", "ExchangeNo">>, <<"CommodityType", "", "CommodityType">>,
          <<"CommodityNo", "toUtf", "CommodityNo">>, <<"ContractNo", "toUtf", "ContractNo">>, <<"StrikePrice", "toUtf", "StrikePrice">>,
          <<"CallOrPutFlag", "", "CallOrPutFlag">>, <<"MatchSide", "", "MatchSide">>, <<"PositionEffect", "", "PositionEffect">>,
          <<"HedgeFlag", "", "HedgeFlag">>, <<"MatchPrice", "", "MatchPrice">>, <<"MatchQty", "", "MatchQty">>,
          <<"OrderSystemNo", "toUtf", "OrderSystemNo">>, <<"UpperMatchNo", "toUtf", "UpperMatchNo">>, <<"MatchDateTime", "toUtf", "MatchDateTime">>,
          <<"UpperMatchDateTime", "toUtf", "UpperMatchDateTime">>, <<"UpperNo", "toUtf", "UpperNo">>, <<"IsAddOne", "", "IsAddOne">>,
          <<"FeeCurrencyGroup", "toUtf", "FeeCurrencyGroup">>, <<"FeeCurrency", "toUtf", "FeeCurrency">>, <<"FeeValue", "", "FeeValue">>,
          <<"IsManualFee", "", "IsManualFee">>, <<"ClosePositionPrice", "", "ClosePositionPrice">>>>],
    processRspFillLocalRemove |-> [cast |-> "TapAPIFillLocalRemoveRsp", ops |-> <<"read", "delete">>,
        keys |-> <<<<"ServerFlag", "", "ServerFlag">>, <<"MatchNo", "toUtf", "MatchNo">>>>] ]

\* the PyTdApi overrides that call PYBIND11_OVERLOAD inside try and catch
\* error_already_set, printing e.what()
CatchCode ==
  { "onConnect", "onRspLogin", "onRtnContactInfo", "onRspRequestVertificateCode",
    "onExpriationDate", "onAPIReady", "onDisconnect", "onRspChangePassword",
    "onRspAuthPassword", "onRspQryTradingDate", "onRspSetReservedInfo", "onRspQryAccount",
    "onRspQryFund", "onRtnFund", "onRspQryExchange", "onRspQryCommodity",
    "onRspQryContract", "onRtnContract", "onRspOrderAction", "onRtnOrder",
    "onRspQryOrder", "onRspQryOrderProcess", "onRspQryFill", "onRtnFill",
    "onRspQryPosition", "onRtnPosition", "onRspQryPositionSummary", "onRtnPositionSummary",
    "onRtnPositionProfit", "onRspQryCurrency", "onRspQryTradeMessage", "onRtnTradeMessage",
    "onRspQryHisOrder", "onRspQryHisOrderProcess", "onRspQryHisMatch", "onRspQryHisPosition",
    "onRspQryHisDelivery", "onRspQryAccountCashAdjust", "onRspQryBill", "onRspQryAccountFeeRent",
    "onRspQryAccountMarginRent", "onRspHKMarketOrderInsert", "onRspHKMarketOrderDelete", "onHKMarketQuoteNotice",
    "onRspOrderLocalRemove", "onRspOrderLocalInput", "onRspOrderLocalModify", "onRspOrderLocalTransfer",
    "onRspFillLocalInput", "onRspFillLocalRemove" }

\* the qryX functions: the SDK query called and its arguments, the request
\* struct, whether it is zero-filled, and the getX(req, key, &myreq.field)
\* copies as <<key, field>>
QryCode ==
  [ qryTradingDate |-> [method |-> "QryTradingDate", args |-> <<"session">>, struct |-> "", zeroed |-> FALSE,
        gets |-> <<>>],
    qryAccount |-> [method |-> "QryAccount", args |-> <<"session", "&myreq">>, struct |-> "TapAPIAccQryReq", zeroed |-> TRUE,
        gets |-> <<>>],
    qryFund |-> [method |-> "QryFund", args |-> <<"session", "&myreq">>, struct |-> "TapAPIFundReq", zeroed |-> TRUE,
        gets |-> <<<<"AccountNo", "AccountNo">>>>],
    qryExchange |-> [method |-> "QryExchange", args |-> <<"session">>, struct |-> "", zeroed |-> FALSE,
        gets |-> <<>>],
    qryCommodity |-> [method |-> "QryCommodity", args |-> <<"session">>, struct |-> "", zeroed |-> FALSE,
        gets |-> <<>>],
    qryContract |-> [method |-> "QryContract", args |-> <<"session", "&myreq">>, struct |-> "TapAPICommodity", zeroed |-> TRUE,
        gets |-> <<<<"ExchangeNo", "ExchangeNo">>, <<"CommodityType", "CommodityType">>, <<"CommodityNo", "CommodityNo">>>>],
    qryOrder |-> [method |-> "QryOrder", args |-> <<"session", "&myreq">>, struct |-> "TapAPIOrderQryReq", zeroed |-> TRUE,
        gets |-> <<<<"AccountNo", "AccountNo">>, <<"ExchangeNo", "ExchangeNo">>, <<"CommodityType", "CommodityType">>, <<"CommodityNo", "CommodityNo">>, <<"OrderType", "OrderType">>, <<"OrderSource", "OrderSource">>, <<"TimeInForce", "TimeInForce">>, <<"ExpireTime", "ExpireTime">>, <<"IsRiskOrder", "IsRiskOrder">>, <<"ServerFlag", "ServerFlag">>, <<"OrderNo", "OrderNo">>, <<"IsBackInput", "IsBackInput">>, <<"IsDeleted", "IsDeleted">>, <<"IsAddOne", "IsAddOne">>>>],
    qryOrderProcess |-> [method |-> "QryOrderProcess", args |-> <<"session", "&myreq">>, struct |-> "TapAPIOrderProcessQryReq", zeroed |-> TRUE,
        gets |-> <<<<"ServerFlag", "ServerFlag">>, <<"OrderNo", "OrderNo">>>>],
    qryFill |-> [method |-> "QryFill", args |-> <<"session", "&myreq">>, struct |-> "TapAPIFillQryReq", zeroed |-> TRUE,
        gets |-> <<<<"AccountNo", "AccountNo">>, <<"ExchangeNo", "ExchangeNo">>, <<"CommodityType", "CommodityType">>, <<"CommodityNo", "CommodityNo">>, <<"ContractNo", "ContractNo">>, <<"StrikePrice", "StrikePrice">>, <<"CallOrPutFlag", "CallOrPutFlag">>, <<"MatchSource", "MatchSource">>, <<"MatchSide", "MatchSide">>, <<"PositionEffect", "PositionEffect">>, <<"ServerFlag", "ServerFlag">>, <<"OrderNo", "OrderNo">>, <<"UpperNo", "UpperNo">>, <<"IsDeleted", "IsDeleted">>, <<"IsAddOne", "IsAddOne">>>>],
    qryPosition |-> [method |-> "QryPosition", args |-> <<"session", "&myreq">>, struct |-> "TapAPIPositionQryReq", zeroed |-> TRUE,
        gets |-> <<<<"AccountNo", "AccountNo">>>>],
    qryPositionSummary |-> [method |-> "QryPositionSummary", args |-> <<"session", "&myreq">>, struct |-> "TapAPIPositionQryReq", zeroed |-> TRUE,
        gets |-> <<<<"AccountNo", "AccountNo">>>>],
    qryCurrency |-> [method |-> "QryCurrency", args |-> <<"session">>, struct |-> "", zeroed |-> FALSE,
        gets |-> <<>>],
    qryAccountCashAdjust |-> [method |-> "QryAccountCashAdjust", args |-> <<"session", "&myreq">>, struct |-> "TapAPIAccountCashAdjustQryReq", zeroed |-> TRUE,
        gets |-> <<<<"SerialID", "SerialID">>, <<"AccountNo", "AccountNo">>, <<"AccountAttributeNo", "AccountAttributeNo">>, <<"BeginDate", "BeginDate">>, <<"EndDate", "EndDate">>>>],
    qryTradeMessage |-> [method |-> "QryTradeMessage", args |-> <<"session", "&myreq">>, struct |-> "TapAPITradeMessageReq", zeroed |-> TRUE,
        gets |-> <<<<"AccountNo", "AccountNo">>, <<"AccountAttributeNo", "AccountAttributeNo">>, <<"BenginSendDateTime", "BenginSendDateTime">>, <<"EndSendDateTime", "EndSendDateTime">>>>],
    qryBill |-> [method |-> "QryBill", args |-> <<"session", "&myreq">>, struct |-> "TapAPIBillQryReq", zeroed |-> TRUE,
        gets |-> <<<<"UserNo", "UserNo">>, <<"BillType", "BillType">>, <<"BillDate", "BillDate">>, <<"BillFileType", "BillFileType">>>>],
    qryHisOrder |-> [method |-> "QryHisOrder", args |-> <<"session", "&myreq">>, struct |-> "TapAPIHisOrderQryReq", zeroed |-> TRUE,
        gets |-> <<<<"AccountNo", "AccountNo">>, <<"AccountAttributeNo", "AccountAttributeNo">>, <<"BeginDate", "BeginDate">>, <<"EndDate", "EndDate">>>>],
    qryHisOrderProcess |-> [method |-> "QryHisOrderProcess", args |-> <<"session", "&myreq">>, struct |-> "TapAPIHisOrderProcessQryReq", zeroed |-> TRUE,
        gets |-> <<<<"Date", "Date">>, <<"OrderNo", "OrderNo">>>>],
    qryHisMatch |-> [method |-> "QryHisMatch", args |-> <<"session", "&myreq">>, struct |-> "TapAPIHisMatchQryReq", zeroed |-> TRUE,
        gets |-> <<<<"AccountNo", "AccountNo">>, <<"AccountAttributeNo", "AccountAttributeNo">>, <<"BeginDate", "BeginDate">>, <<"EndDate", "EndDate">>, <<"CountType", "CountType">>>>],
    qryHisPosition |-> [method |-> "QryHisPosition", args |-> <<"session", "&myreq">>, struct |-> "TapAPIHisPositionQryReq", zeroed |-> TRUE,
        gets |-> <<<<"AccountNo", "AccountNo">>, <<"AccountAttributeNo", "AccountAttributeNo">>, <<"Date", "Date">>, <<"CountType", "CountType">>, <<"SettleFlag", "SettleFlag">>>>],
    qryHisDelivery |-> [method |-> "QryHisDelivery", args |-> <<"session", "&myreq">>, struct |-> "TapAPIHisDeliveryQryReq", zeroed |-> TRUE,
        gets |-> <<<<"AccountNo", "AccountNo">>, <<"AccountAttributeNo", "AccountAttributeNo">>, <<"BeginDate", "BeginDate">>, <<"EndDate", "EndDate">>, <<"CountType", "CountType">>>>],
    qryAccountFeeRent |-> [method |-> "QryAccountFeeRent", args |-> <<"session", "&myreq">>, struct |-> "TapAPIAccountFeeRentQryReq", zeroed |-> TRUE,
        gets |-> <<<<"AccountNo", "AccountNo">>>>],
    qryAccountMarginRent |-> [method |-> "QryAccountMarginRent", args |-> <<"session", "&myreq">>, struct |-> "TapAPIAccountMarginRentQryReq", zeroed |-> TRUE,
        gets |-> <<<<"AccountNo", "AccountNo">>, <<"ExchangeNo", "ExchangeNo">>, <<"CommodityType", "CommodityType">>, <<"CommodityNo", "CommodityNo">>, <<"ContractNo", "ContractNo">>>>] ]

Events == DOMAIN CallbackCode

(* ---- C++ value conversions -------------------------------------------- *)
\* conversion of an integer value to a signed int (two's complement) of
\* IntBits bits
ToInt(v) == ((v + 2^(IntBits - 1)) % (2^IntBits)) - 2^(IntBits - 1)

\* implicit conversion of a value of C++ type `from` to type `to`
Conv(from, to, v) ==
  CASE to = "int" /\ from \in {"int", "unsigned int", "char"} -> ToInt(v)
    [] to = "int" /\ from = "bool" -> IF v THEN 1 ELSE 0
    [] to = "bool" /\ from \in {"int", "unsigned int", "char"} -> (v # 0)
    [] OTHER -> v

(* ---- Task and TaskQueue (declared in the header) ----------------------- *)
\* the null pointer, as a payload record
NULL == [struct |-> "NULL", val |-> 0]

\* types of the fields of struct Task
TaskFieldType ==
  [task_id |-> "int", task_int |-> "int", task_last |-> "bool",
   task_string |-> "string", task_data |-> "ptr"]

\* Task(): a value-initialised task.  origin is a history field (not in the
\* code): the SDK call that built the task, its arguments and its ordinal.
EmptyTask ==
  [task_name |-> "", task_id |-> 0, task_int |-> 0, task_last |-> FALSE,
   task_string |-> "", task_data |-> NULL, origin |-> <<"", <<>>, 0>>]

\* TaskQueue::push: append under the queue's mutex and notify the consumer
TaskQueuePush(q, task) == Append(q, task)

\* mutant: pop takes the task at the back
TaskQueuePopBack(q, term) ==
  IF term THEN [result |-> "throw"]
  ELSE IF q = <<>> THEN [result |-> "wait"]
  ELSE [result |-> "task", task |-> q[Len(q)], rest |-> SubSeq(q, 1, Len(q) - 1)]

\* mutant: pop does not wait, it returns a default task from an empty queue
TaskQueuePopNoWait(q, term) ==
  IF term THEN [result |-> "throw"]
  ELSE IF q = <<>> THEN [result |-> "task", task |-> EmptyTask, rest |-> q]
  ELSE [result |-> "task", task |-> Head(q), rest |-> Tail(q)]

\* TaskQueue::pop: wait while the queue is empty and not terminated; throw
\* TerminatedError once it is terminated; else take the task at the front
TaskQueuePop(q, term) ==
  IF term THEN [result |-> "throw"]
  ELSE IF q = <<>> THEN [result |-> "wait"]
  ELSE [result |-> "task", task |-> Head(q), rest |-> Tail(q)]

(* ---- inputs of the SDK ------------------------------------------------- *)
\* the members of the vendor structs that are pointers to a further struct
\* in the SDK's memory
PointerFields ==
  { <<"TapAPIOrderActionRsp", "OrderInfo">>,
    <<"TapAPIOrderInfoNotice", "OrderInfo">>,
    <<"TapAPIPositionProfitNotice", "Data">> }

HasPointer(struct) == \E pf \in PointerFields : pf[1] = struct

\* the characters the SDK passes as isLast: APIYNFLAG_YES 'Y', APIYNFLAG_NO 'N'
CharY == 89
CharN == 78

\* sample values of a callback parameter, by its C++ type
Samples(p) ==
  CASE p.type = "unsigned int" -> {0, 1, 2^(IntBits - 1)}
    [] p.type = "int" -> {0, -1}
    [] p.type = "char" -> {CharY, CharN}
    [] p.type = "string" -> {"", "x"}
    [] p.type = "ptr" -> {NULL, [struct |-> p.struct, val |-> 1]}

RECURSIVE ArgTuples(_)
\* the argument tuples of a parameter list
ArgTuples(ps) ==
  IF ps = <<>> THEN {<<>>}
  ELSE {<<v>> \o r : v \in Samples(Head(ps)), r \in ArgTuples(Tail(ps))}

\* the argument tuples the SDK may pass to callback ev
ArgsOf(ev) == ArgTuples(CallbackCode[ev].params)

\* index of the parameter called name
ParamIndex(ps, name) == CHOOSE i \in 1..Len(ps) : ps[i].name = name

\* the arguments of a call of the SDK to callback ev: a struct it passes lies
\* in a buffer of the SDK, and so does the struct a pointer member of it
\* points to (nested)
Located(ev, args) ==
  [i \in 1..Len(args) |->
     IF CallbackCode[ev].params[i].type = "ptr" /\ args[i] # NULL
     THEN [struct |-> args[i].struct, val |-> args[i].val,
           nested |-> HasPointer(args[i].struct)]
     ELSE args[i]]

(* ---- the SDK callbacks OnX -------------------------------------------- *)
\* mutant: the callbacks take the interpreter lock before they push
CallbackAcquiresGilAlways(ev) == TRUE

\* the callback bodies take no interpreter lock
CallbackAcquiresGil(ev) == FALSE

\* mutant: OnDisconnect tags its task as OnAPIReady does
TagOfMistagged(ev) ==
  IF ev = "OnDisconnect" THEN "ONAPIREADY" ELSE CallbackCode[ev].task_name

\* task.task_name = ONX
TagOf(ev) == CallbackCode[ev].task_name

\* task.<field> = <param>: a pointer parameter is copied into a new struct
\* when non-null (task_data stays null otherwise); *task_data = *info copies
\* the members, a pointer member as the pointer it is
AssignField(ev, task, set, args) ==
  LET ps == CallbackCode[ev].params
      i == ParamIndex(ps, set[2])
  IN [task EXCEPT ![set[1]] = Conv(ps[i].type, TaskFieldType[set[1]], args[i])]

RECURSIVE AssignFields(_, _, _, _)
\* the assignments of the callback body, in source order
AssignFields(ev, task, sets, args) ==
  IF sets = <<>> THEN task
  ELSE AssignFields(ev, AssignField(ev, task, Head(sets), args), Tail(sets), args)

\* the task a callback builds: Task(), task_name, then the field assignments
BuildTask(ev, args) ==
  AssignFields(ev,
    [EmptyTask EXCEPT !.task_name = TagOf(ev), !.origin = <<ev, args, 0>>],
    CallbackCode[ev].sets, args)

(* ---- processTask and the processX functions ---------------------------- *)
\* mutant: the switch has no case for ONDISCONNECT
ProcessOfMissingCase(name) ==
  IF name \in DOMAIN SwitchCode /\ name # "ONDISCONNECT" THEN SwitchCode[name] ELSE ""

\* the switch of processTask: the processX function of a task name ("" when
\* no case matches)
ProcessOf(name) == IF name \in DOMAIN SwitchCode THEN SwitchCode[name] ELSE ""

\* mutant: no processX function takes the interpreter lock
AcquiresGilNever(proc) == FALSE

\* the processX function takes the interpreter lock (gil_scoped_acquire)
AcquiresGil(proc) == ProcessCode[proc].gil

\* mutant: processRtnFund invokes the handler of processRtnContract
HandlerOfCrossed(proc) ==
  IF proc = "processRtnFund" THEN "onRtnContract" ELSE ProcessCode[proc].handler

\* the handler a processX function invokes
HandlerOf(proc) == ProcessCode[proc].handler

\* mutant: processRtnFund leaves out the last assignment to the map
KeysOfShort(proc) ==
  IF proc = "processRtnFund"
  THEN SubSeq(DictCode[proc].keys, 1, Len(DictCode[proc].keys) - 1)
  ELSE DictCode[proc].keys

\* the assignments data[key] = ... of a processX function, in source order
KeysOf(proc) == DictCode[proc].keys

\* toUtf: conversion of a string of the SDK to UTF-8
toUtf(v) == <<"utf8", v>>

\* task_data->field of a payload copy read as struct type cast: the value
\* of the member, or for a pointer member the pointer into the SDK's memory
Member(copy, cast, field) ==
  IF cast # copy.struct THEN <<"garbage">>
  ELSE IF <<cast, field>> \in PointerFields THEN [sdk_memory |-> copy.nested]
  ELSE <<field, copy.val>>

\* dict data of a processX function: empty, and filled from the payload copy
\* when task_data is non-null.  The record names the function and the copy;
\* MapOf gives its keys and values.
DictOf(proc, task) == [struct |-> "dict", of |-> proc, from |-> task.task_data]

\* the keys of a map
KeysIn(d) ==
  IF d.from = NULL THEN {}
  ELSE {KeysOf(d.of)[i][1] : i \in 1..Len(KeysOf(d.of))}

\* the map as a function from keys to values: the last assignment to a key
\* is the one that stays
MapOf(d) ==
  [k \in KeysIn(d) |->
     LET ks == KeysOf(d.of)
         i == CHOOSE j \in 1..Len(ks) :
                /\ ks[j][1] = k
                /\ \A l \in (j + 1)..Len(ks) : ks[l][1] # k
         m == Member(d.from, DictCode[d.of].cast, ks[i][3])
     IN IF ks[i][2] = "toUtf" THEN toUtf(m) ELSE m]

\* value and C++ type of one argument expression of the handler call
ArgValue(proc, task, a) == IF a = "data" THEN DictOf(proc, task) ELSE task[a]
ArgType(a) == IF a = "data" THEN "dict" ELSE TaskFieldType[a]

\* the arguments the handler receives, converted to its parameter types
HandlerArgs(proc, task) ==
  LET as == ProcessCode[proc].args
      hp == HandlerCode[HandlerOf(proc)]
  IN [i \in 1..Len(as) |-> Conv(ArgType(as[i]), hp[i].type, ArgValue(proc, task, as[i]))]

(* ---- state -------------------------------------------------------------- *)
VARIABLES
  task_queue,   \* TdApi::task_queue: the queued tasks, front first
  terminated,   \* the queue's terminate flag
  active,       \* TdApi::active
  api,          \* TdApi::api: "NULL" or "live"
  spi,          \* the SDK holds this object as its callback interface
  task_thread,  \* TdApi::task_thread: id of the thread it owns, 0 if not joinable
  worker,       \* worker threads: pc, the popped task, holds the interpreter lock
  sdk,          \* SDK threads: pc and the local Task of the running callback
  hostpc,       \* the scripting host's thread: "py" or its position in exit()
  gil,          \* the interpreter lock: "host", "worker" or "free"
  fault,        \* "none", or how the process ended abnormally
  host_calls,   \* number of host calls made
  sdk_events,   \* the event types the SDK delivers in this run
  sdk_left,     \* number of callbacks the SDK still delivers in this run
  pushed,       \* history: the tasks pushed, in the order the pushes completed
  calls,        \* history: the handler invocations, in order
  sdk_buf,      \* per pushed task: the SDK's buffers its callback was passed
  heap,         \* per pushed task: the payload copy its callback allocated
  raising,      \* the handlers whose user override raises an error, in this run
  host_qry,     \* the query calls the host script makes in this run
  reported,     \* number of errors the PyTdApi overrides caught and printed
  exit_returned, \* history: a call of exit() has returned
  last_qry,     \* history: the last query call of the host and what it did
  spawned       \* a thread started by an init() whose assignment aborted: where it is

vars == <<task_queue, terminated, active, api, spi, task_thread, worker, sdk,
          hostpc, gil, fault, host_calls, sdk_events, sdk_left, pushed, calls,
          sdk_buf, heap, raising, host_qry, reported, exit_returned, last_qry, spawned>>

\* the event types of a run of Spec: one callback of each argument shape
\* that the dispatch treats differently (no argument and no interpreter lock,
\* one int, payload only)
LiveEvents == {"OnConnect", "OnDisconnect", "OnRtnPositionProfit"}

NoWorker == [pc |-> "none", task |-> EmptyTask, holds |-> FALSE]
IdleSdk == [pc |-> "idle", task |-> EmptyTask]

\* the state after construction of a TdApi object, host running script code
InitCommon ==
  /\ task_queue = <<>>
  /\ terminated = FALSE
  /\ active = FALSE
  /\ api = "NULL"
  /\ spi = FALSE
  /\ task_thread = 0
  /\ worker = [w \in WorkerIds |-> NoWorker]
  /\ sdk = [t \in SdkThreads |-> IdleSdk]
  /\ hostpc = "py"
  /\ gil = "host"
  /\ fault = "none"
  /\ host_calls = 0
  /\ pushed = <<>>
  /\ calls = <<>>
  /\ sdk_buf = <<>>
  /\ heap = <<>>
  /\ reported = 0
  /\ exit_returned = FALSE
  /\ last_qry = <<>>
  /\ spawned = "none"

\* the maps a host script passes as req to qryX: empty, or with every key the
\* function looks up
ReqSamples(f) ==
  {[k \in {} |-> 0]} \cup
  {[k \in {QryCode[f].gets[i][1] : i \in 1..Len(QryCode[f].gets)} |-> 1]}

\* the calls of qryX a host script may make, each with the return code the
\* SDK gives
QryCalls(f) ==
  [f : {f}, session : {0, 1, 2^(IntBits - 1)}, req : ReqSamples(f), ret : {0, -1}]

\* the query call and the raising override of a run of Spec
LiveQueries == {[f |-> "qryFund", session |-> 1, req |-> [k \in {"AccountNo"} |-> 1], ret |-> 0]}
LiveRaising == {"onDisconnect"}

Init ==
  /\ InitCommon
  /\ sdk_events = LiveEvents
  /\ sdk_left = MaxEvents
  /\ raising = LiveRaising
  /\ host_qry = LiveQueries

\* the event types of the runs checked for progress: progress depends on
\* the event only through whether its processX function takes the
\* interpreter lock (processConnect does not, every other one does)
ProgressEvents == {"OnConnect", "OnDisconnect"}

InitProgress ==
  /\ InitCommon
  /\ sdk_events = ProgressEvents
  /\ sdk_left = MaxEvents
  /\ raising = LiveRaising
  /\ host_qry = LiveQueries

\* a run in which the SDK delivers events of one type, for each of the types
InitTypes ==
  /\ InitCommon
  /\ \E ev \in Events :
       /\ sdk_events = {ev}
       /\ raising \in {{}, {HandlerOf(ProcessOf(TagOf(ev)))}}
  /\ sdk_left = 1
  /\ host_qry = LiveQueries

\* a run in which the host script calls one of the qryX functions, for each
\* of the functions
InitQry ==
  /\ InitCommon
  /\ sdk_events = ProgressEvents
  /\ sdk_left = 1
  /\ raising = LiveRaising
  /\ \E f \in DOMAIN QryCode : host_qry = QryCalls(f)

Running == fault = "none"

(* ---- SDK callback threads ---------------------------------------------- *)
\* the SDK passes a non-null pointer to a struct in the call
PassesStruct(ev, args) ==
  \E i \in 1..Len(args) : CallbackCode[ev].params[i].type = "ptr" /\ args[i] # NULL

\* what the SDK does with the buffers it passed once the callback has
\* returned: it keeps them as they are, overwrites them or releases them
SdkAfter == {"valid", "overwritten", "released"}

\* the heap cell of the payload copy of a queued task, and the buffers of the
\* SDK its callback was passed: numbered in the order of the pushes
CopyOf(task) == task.origin[3]

\* a task as the k-th one that is pushed
Queued(task, k) == [task EXCEPT !.origin[3] = k]

\* the fields of a task that the body of callback ev assigns with arguments
\* args: a payload field only for a non-null argument
Assigned(ev, args) ==
  {"task_name", "origin"} \cup
  {CallbackCode[ev].sets[i][1] : i \in
     {j \in 1..Len(CallbackCode[ev].sets) :
        LET k == ParamIndex(CallbackCode[ev].params, CallbackCode[ev].sets[j][2])
        IN CallbackCode[ev].params[k].type = "ptr" => args[k] # NULL}}

\* mutant: the callback fills in a task object that outlives the call, so the
\* fields it does not assign keep the values of the task pushed before
OnCallbackKeepsTask(t, ev, args) ==
  /\ Running /\ spi /\ sdk_left > 0
  /\ sdk[t].pc = "idle"
  /\ LET own == BuildTask(ev, Located(ev, args))
         old == IF pushed = <<>> THEN EmptyTask ELSE pushed[Len(pushed)]
     IN sdk' = [sdk EXCEPT ![t] =
                  [pc |-> "push",
                   task |-> [f \in DOMAIN own |->
                               IF f \in Assigned(ev, args) THEN own[f] ELSE old[f]]]]
  /\ sdk_left' = sdk_left - 1
  /\ UNCHANGED <<task_queue, terminated, active, api, spi, task_thread, worker,
                 hostpc, gil, fault, host_calls, sdk_events, pushed, calls>>
  /\ UNCHANGED <<spawned, sdk_buf, heap, raising, host_qry, reported, exit_returned, last_qry>>

\* OnX(args) up to the push: the callback builds its local task; a non-null
\* payload is copied into a struct allocated with new, which is live and
\* known to this callback alone until the push
OnCallback(t, ev, args) ==
  /\ Running /\ spi /\ sdk_left > 0
  /\ sdk[t].pc = "idle"
  /\ sdk' = [sdk EXCEPT ![t] = [pc |-> "push",
                                 task |-> BuildTask(ev, Located(ev, args))]]
  /\ sdk_left' = sdk_left - 1
  /\ UNCHANGED <<task_queue, terminated, active, api, spi, task_thread, worker,
                 hostpc, gil, fault, host_calls, sdk_events, pushed, calls>>
  /\ UNCHANGED <<spawned, sdk_buf, heap, raising, host_qry, reported, exit_returned, last_qry>>

\* this->task_queue.push(task) and return from the callback; from then on
\* the buffers the SDK passed are the SDK's to reuse
CallbackPush(t) ==
  /\ Running
  /\ sdk[t].pc = "push"
  /\ CallbackAcquiresGil(sdk[t].task.origin[1]) => gil = "free"
  /\ LET task == Queued(sdk[t].task, Len(pushed) + 1)
     IN /\ task_queue' = TaskQueuePush(task_queue, task)
        /\ pushed' = Append(pushed, task)
        /\ heap' = Append(heap, IF task.task_data # NULL THEN "live" ELSE "none")
        /\ \E after \in SdkAfter :
             sdk_buf' = Append(sdk_buf,
                               IF PassesStruct(task.origin[1], task.origin[2])
                               THEN after ELSE "none")
  /\ sdk' = [sdk EXCEPT ![t] = IdleSdk]
  /\ UNCHANGED <<terminated, active, api, spi, task_thread, worker, hostpc, gil,
                 fault, host_calls, sdk_events, sdk_left, calls>>
  /\ UNCHANGED <<spawned, raising, host_qry, reported, exit_returned, last_qry>>

(* ---- the worker thread: processTask ------------------------------------ *)
\* while (this->active)
WorkerLoop(w) ==
  /\ Running
  /\ worker[w].pc = "loop"
  /\ worker' = [worker EXCEPT ![w].pc = IF active THEN "pop" ELSE "done"]
  /\ UNCHANGED <<task_queue, terminated, active, api, spi, task_thread, sdk,
                 hostpc, gil, fault, host_calls, sdk_events, sdk_left, pushed, calls>>
  /\ UNCHANGED <<spawned, sdk_buf, heap, raising, host_qry, reported, exit_returned, last_qry>>

\* mutant: the worker takes a task from the queue also after terminate()
WorkerPopAfterTerminate(w) ==
  /\ Running
  /\ worker[w].pc = "pop"
  /\ LET r == TaskQueuePop(task_queue, FALSE) IN
       /\ r.result = "task"
       /\ worker' = [worker EXCEPT ![w].pc = "process", ![w].task = r.task]
       /\ task_queue' = r.rest
  /\ UNCHANGED <<terminated, active, api, spi, task_thread, sdk, hostpc, gil,
                 fault, host_calls, sdk_events, sdk_left, pushed, calls>>
  /\ UNCHANGED <<spawned, sdk_buf, heap, raising, host_qry, reported, exit_returned, last_qry>>

\* Task task = this->task_queue.pop(); TerminatedError ends processTask
WorkerPop(w) ==
  /\ Running
  /\ worker[w].pc = "pop"
  /\ LET r == TaskQueuePop(task_queue, terminated) IN
       /\ r.result # "wait"
       /\ IF r.result = "throw"
          THEN /\ worker' = [worker EXCEPT ![w].pc = "done"]
               /\ UNCHANGED task_queue
          ELSE /\ worker' = [worker EXCEPT ![w].pc = "process", ![w].task = r.task]
               /\ task_queue' = r.rest
  /\ UNCHANGED <<terminated, active, api, spi, task_thread, sdk, hostpc, gil,
                 fault, host_calls, sdk_events, sdk_left, pushed, calls>>
  /\ UNCHANGED <<spawned, sdk_buf, heap, raising, host_qry, reported, exit_returned, last_qry>>

\* mutant: the payload copy is deleted before its members are read
PayloadOpsDeleteFirst(proc) ==
  IF DictCode[proc].ops = <<>> THEN <<>> ELSE <<"delete", "read">>

\* the statements of a processX function on the payload copy, in source
\* order: the reads task_data->field, then delete task_data
PayloadOps(proc) == DictCode[proc].ops

\* a heap cell after a read or a delete: both need a live cell
HeapAfter(cell, op) ==
  IF cell # "live" THEN "corrupt"
  ELSE IF op = "delete" THEN "freed" ELSE "live"

RECURSIVE HeapAfterAll(_, _)
HeapAfterAll(cell, ops) ==
  IF ops = <<>> THEN cell
  ELSE HeapAfterAll(HeapAfter(cell, Head(ops)), Tail(ops))

\* the record of one handler invocation
Call(w, proc, task, held) ==
  [handler |-> HandlerOf(proc), args |-> HandlerArgs(proc, task),
   thread |-> <<"worker", w>>, locked |-> held, task |-> task]

\* mutant: the handler is invoked twice for a task
InvocationsTwice(w, proc, task, held) ==
  <<Call(w, proc, task, held), Call(w, proc, task, held)>>

\* the handler invocations a processX function makes for a task
Invocations(w, proc, task, held) == <<Call(w, proc, task, held)>>

\* switch (task.task_name) and processX(&task) up to the call of the
\* handler: take the interpreter lock where the function does, build the
\* dict, delete the payload copy, invoke onX
WorkerProcess(w) ==
  LET proc == ProcessOf(worker[w].task.task_name) IN
  /\ Running
  /\ worker[w].pc = "process"
  /\ IF proc = ""
     THEN /\ worker' = [worker EXCEPT ![w].pc = "loop"]
          /\ UNCHANGED <<gil, calls, heap>>
     ELSE /\ AcquiresGil(proc) => gil = "free"
          /\ heap' = IF worker[w].task.task_data = NULL THEN heap
                     ELSE [heap EXCEPT ![CopyOf(worker[w].task)] =
                             HeapAfterAll(@, PayloadOps(proc))]
          /\ gil' = IF AcquiresGil(proc) THEN "worker" ELSE gil
          /\ worker' = [worker EXCEPT ![w].pc = "handler",
                                      ![w].holds = AcquiresGil(proc)]
          /\ calls' = calls \o Invocations(w, proc, worker[w].task, AcquiresGil(proc))
  /\ UNCHANGED <<task_queue, terminated, active, api, spi, task_thread, sdk,
                 hostpc, fault, host_calls, sdk_events, sdk_left, pushed>>
  /\ UNCHANGED <<spawned, sdk_buf, raising, host_qry, reported, exit_returned, last_qry>>

\* PyTdApi::onX: PYBIND11_OVERLOAD takes the interpreter lock (if the thread
\* does not hold it) and runs the user's override
WorkerOverload(w) ==
  /\ Running
  /\ worker[w].pc = "handler"
  /\ worker[w].holds \/ gil = "free"
  /\ gil' = "worker"
  /\ worker' = [worker EXCEPT ![w].pc = "python", ![w].holds = TRUE]
  /\ UNCHANGED <<task_queue, terminated, active, api, spi, task_thread, sdk,
                 hostpc, fault, host_calls, sdk_events, sdk_left, pushed, calls>>
  /\ UNCHANGED <<spawned, sdk_buf, heap, raising, host_qry, reported, exit_returned, last_qry>>

\* mutant: no override catches the error
CatchesNone(h) == FALSE

\* the PyTdApi override of a handler catches error_already_set
Catches(h) == h \in CatchCode

\* the handler a worker is in
HandlerIn(w) == HandlerOf(ProcessOf(worker[w].task.task_name))

\* the user's override returns or raises; an error is caught in the PyTdApi
\* override and printed (one that is not caught leaves processTask and ends
\* the process); the lock is released, processX returns
WorkerReturn(w) ==
  /\ Running
  /\ worker[w].pc = "python"
  /\ gil' = "free"
  /\ worker' = [worker EXCEPT ![w].pc = "loop", ![w].holds = FALSE,
                              ![w].task = EmptyTask]
  /\ IF HandlerIn(w) \notin raising THEN UNCHANGED <<reported, fault>>
     ELSE IF Catches(HandlerIn(w)) THEN reported' = reported + 1 /\ UNCHANGED fault
     ELSE fault' = "uncaught" /\ UNCHANGED reported
  /\ UNCHANGED <<task_queue, terminated, active, api, spi, task_thread, sdk,
                 hostpc, host_calls, sdk_events, sdk_left, pushed, calls>>
  /\ UNCHANGED <<spawned, sdk_buf, heap, raising, host_qry, exit_returned, last_qry>>

(* ---- the scripting host ------------------------------------------------ *)
\* the host may call into the module: it runs script code and holds the lock
HostMayCall == Running /\ hostpc = "py" /\ gil = "host" /\ host_calls < MaxHostCalls

\* the interpreter hands the lock over between two script instructions
HostYield ==
  /\ Running /\ hostpc = "py" /\ gil = "host"
  /\ gil' = "free"
  /\ UNCHANGED <<task_queue, terminated, active, api, spi, task_thread, worker,
                 sdk, hostpc, fault, host_calls, sdk_events, sdk_left, pushed, calls>>
  /\ UNCHANGED <<spawned, sdk_buf, heap, raising, host_qry, reported, exit_returned, last_qry>>

HostResume ==
  /\ Running /\ hostpc = "py" /\ gil = "free"
  /\ gil' = "host"
  /\ UNCHANGED <<task_queue, terminated, active, api, spi, task_thread, worker,
                 sdk, hostpc, fault, host_calls, sdk_events, sdk_left, pushed, calls>>
  /\ UNCHANGED <<spawned, sdk_buf, heap, raising, host_qry, reported, exit_returned, last_qry>>

\* createFtdcTraderApi: create the SDK handle and register this object
createFtdcTraderApi ==
  /\ HostMayCall
  /\ api' = "live"
  /\ spi' = TRUE
  /\ host_calls' = host_calls + 1
  /\ UNCHANGED <<task_queue, terminated, active, task_thread, worker, sdk,
                 hostpc, gil, fault, sdk_events, sdk_left, pushed, calls>>
  /\ UNCHANGED <<spawned, sdk_buf, heap, raising, host_qry, reported, exit_returned, last_qry>>

\* the id of the thread object a new std::thread gets
NewThreadId == host_calls + 1

\* mutant: assigning to a joinable thread object lets the old thread run on
ThreadAssignDetaches(tt) == FALSE

\* task_thread = thread(...): move-assignment to a joinable std::thread calls
\* std::terminate
ThreadAssignAborts(tt) == tt # 0

\* where the thread started by thread(&TdApi::processTask, this) can be in
\* processTask when the assignment of that thread object aborts the process:
\* at the loop test (active is true), or in task_queue.pop(); what it took
\* from the queue is lost with the process
SpawnedAt == {"loop", "pop"}

\* init(): active = true; task_thread = thread(&TdApi::processTask, this);
\* api->Init().  The thread object on the right is constructed, and its
\* thread started, before the assignment.
init ==
  /\ HostMayCall
  /\ active' = TRUE
  /\ host_calls' = host_calls + 1
  /\ IF ThreadAssignAborts(task_thread)
     THEN /\ fault' = "terminate"
          /\ spawned' \in SpawnedAt
          /\ UNCHANGED <<task_thread, worker>>
     ELSE /\ task_thread' = NewThreadId
          /\ UNCHANGED spawned
          /\ worker' = [worker EXCEPT ![NewThreadId].pc = "loop"]
          /\ fault' = IF api = "NULL" THEN "null_deref" ELSE "none"
  /\ UNCHANGED <<task_queue, terminated, api, spi, sdk, hostpc, gil,
                 sdk_events, sdk_left, pushed, calls>>
  /\ UNCHANGED <<sdk_buf, heap, raising, host_qry, reported, exit_returned, last_qry>>

\* exit(): this->active = false
exit_active ==
  /\ HostMayCall
  /\ active' = FALSE
  /\ hostpc' = "exit_terminate"
  /\ host_calls' = host_calls + 1
  /\ UNCHANGED <<task_queue, terminated, api, spi, task_thread, worker, sdk,
                 gil, fault, sdk_events, sdk_left, pushed, calls>>
  /\ UNCHANGED <<spawned, sdk_buf, heap, raising, host_qry, reported, exit_returned, last_qry>>

\* exit(): this->task_queue.terminate()
exit_terminate ==
  /\ Running /\ hostpc = "exit_terminate"
  /\ terminated' = TRUE
  /\ hostpc' = "exit_join"
  /\ UNCHANGED <<task_queue, active, api, spi, task_thread, worker, sdk,
                 gil, fault, host_calls, sdk_events, sdk_left, pushed, calls>>
  /\ UNCHANGED <<spawned, sdk_buf, heap, raising, host_qry, reported, exit_returned, last_qry>>

\* mutant: exit() does not wait for the worker thread to end
exit_without_join ==
  /\ Running /\ hostpc = "exit_join"
  /\ task_thread' = 0
  /\ hostpc' = "exit_release"
  /\ UNCHANGED <<task_queue, terminated, active, api, spi, worker, sdk, fault,
                 gil, host_calls, sdk_events, sdk_left, pushed, calls>>
  /\ UNCHANGED <<spawned, sdk_buf, heap, raising, host_qry, reported, exit_returned, last_qry>>

\* exit(): this->task_thread.join(); joining a thread that is not joinable
\* throws std::system_error, which leaves exit()
exit_join ==
  /\ Running /\ hostpc = "exit_join"
  /\ IF task_thread = 0
     THEN /\ hostpc' = "py"
          /\ fault' = "none"
          /\ UNCHANGED task_thread
     ELSE /\ worker[task_thread].pc = "done"
          /\ task_thread' = 0
          /\ hostpc' = "exit_release"
          /\ UNCHANGED fault
  /\ UNCHANGED <<task_queue, terminated, active, api, spi, worker, sdk,
                 gil, host_calls, sdk_events, sdk_left, pushed, calls>>
  /\ UNCHANGED <<spawned, sdk_buf, heap, raising, host_qry, reported, exit_returned, last_qry>>

\* exit(): api->RegisterSpi(NULL); api->Release(); api = NULL; return 1
exit_release ==
  /\ Running /\ hostpc = "exit_release"
  /\ IF api = "NULL"
     THEN /\ fault' = "null_deref"
          /\ UNCHANGED <<api, spi, hostpc, exit_returned>>
     ELSE /\ spi' = FALSE
          /\ api' = "NULL"
          /\ hostpc' = "py"
          /\ exit_returned' = TRUE
          /\ UNCHANGED fault
  /\ UNCHANGED <<task_queue, terminated, active, task_thread, worker, sdk,
                 gil, host_calls, sdk_events, sdk_left, pushed, calls>>
  /\ UNCHANGED <<spawned, sdk_buf, heap, raising, host_qry, reported, last_qry>>

\* the fields of the request struct of a qryX function that it fills
RequestFields(f) == {QryCode[f].gets[i][2] : i \in 1..Len(QryCode[f].gets)}

\* getX(req, key, &myreq.field): the value of the key when the map has it
GetField(req, key, old) == IF key \in DOMAIN req THEN req[key] ELSE old

\* mutant: the request struct keeps the fields of the previous request
RequestStartsFromPrevious(f, prev) ==
  [fld \in RequestFields(f) |-> IF fld \in DOMAIN prev THEN prev[fld] ELSE 0]

\* T myreq = T(); memset(&myreq, 0, sizeof(myreq)): every field is zero,
\* whatever the previous request was
RequestStart(f, prev) == [fld \in RequestFields(f) |-> 0]

\* myreq as it is passed to the SDK: zero-filled, then the getX copies in
\* source order
RequestOf(f, req, prev) ==
  [fld \in RequestFields(f) |->
     LET gs == QryCode[f].gets
         i == CHOOSE j \in 1..Len(gs) :
                /\ gs[j][2] = fld
                /\ \A l \in (j + 1)..Len(gs) : gs[l][2] # fld
     IN GetField(req, gs[i][1], RequestStart(f, prev)[fld])]

\* the request struct of the last query call ([] if there was none)
PreviousRequest ==
  IF last_qry = <<>> THEN [fld \in {} |-> 0] ELSE last_qry[1].request

\* qryX(session, req): int i = this->api->QryX(session, &myreq); return i
qry(c) ==
  /\ HostMayCall
  /\ host_calls' = host_calls + 1
  /\ IF api = "NULL"
     THEN fault' = "null_deref" /\ UNCHANGED last_qry
     ELSE /\ UNCHANGED fault
          /\ LET request == RequestOf(c.f, c.req, PreviousRequest)
                 sent == [i \in 1..Len(QryCode[c.f].args) |->
                            IF QryCode[c.f].args[i] = "session"
                            THEN Conv("unsigned int", "unsigned int", c.session)
                            ELSE request]
             IN last_qry' = <<[call |-> c, request |-> request,
                               sdk_calls |-> <<[method |-> QryCode[c.f].method,
                                                args |-> sent]>>,
                               ret |-> Conv("int", "int", c.ret)]>>
  /\ UNCHANGED <<task_queue, terminated, active, api, spi, task_thread, worker,
                 sdk, hostpc, gil, sdk_events, sdk_left, pushed, calls>>
  /\ UNCHANGED <<spawned, sdk_buf, heap, raising, host_qry, reported, exit_returned>>

(* ---- next-state relation ------------------------------------------------ *)
SdkStep ==
  \/ \E t \in SdkThreads, ev \in sdk_events : \E args \in ArgsOf(ev) : OnCallback(t, ev, args)
  \/ \E t \in SdkThreads : CallbackPush(t)

WorkerStep ==
  \E w \in WorkerIds :
    \/ WorkerLoop(w)
    \/ WorkerPop(w)
    \/ WorkerProcess(w)
    \/ WorkerOverload(w)
    \/ WorkerReturn(w)

HostStep ==
  \/ HostYield
  \/ HostResume
  \/ createFtdcTraderApi
  \/ init
  \/ exit_active
  \/ exit_terminate
  \/ exit_join
  \/ exit_release
  \/ \E c \in host_qry : qry(c)

Next == SdkStep \/ WorkerStep \/ HostStep

Spec == Init /\ [][Next]_vars

SpecTypes == InitTypes /\ [][Next]_vars

SpecQry == InitQry /\ [][Next]_vars

\* the worker thread is scheduled fairly, every handler returns, and the
\* interpreter hands the lock over: a thread that asks for the lock again and
\* again gets it.  At most one worker thread is alive at a time, so the
\* conditions are stated for the steps of whichever thread that is.
WorkerFairness ==
  /\ WF_vars(\E w \in WorkerIds : WorkerLoop(w) \/ WorkerPop(w) \/ WorkerReturn(w))
  /\ SF_vars(\E w \in WorkerIds : WorkerProcess(w) \/ WorkerOverload(w))
  /\ WF_vars(HostYield)

SpecWorkerFair == InitProgress /\ [][Next]_vars /\ WorkerFairness

\* the SDK threads are scheduled: a callback that can push does push
SdkFairness == \A t \in SdkThreads : WF_vars(CallbackPush(t))

SpecSdkFair == InitProgress /\ [][Next]_vars /\ SdkFairness

\* the host thread runs: once inside exit() it goes on whenever it can
ExitFairness ==
  /\ WF_vars(exit_terminate)
  /\ WF_vars(exit_join)
  /\ WF_vars(exit_release)

\* every thread of the program is scheduled fairly
SpecExitFair ==
  InitProgress /\ [][Next]_vars /\ WorkerFairness /\ SdkFairness /\ ExitFairness

(* ---- properties --------------------------------------------------------- *)
\* the task name that belongs to each callback: ONX for OnX
TaskNameOfCallback ==
  [ OnConnect |-> "ONCONNECT",
    OnRspLogin |-> "ONRSPLOGIN",
    OnRtnContactInfo |-> "ONRTNCONTACTINFO",
    OnRspRequestVertificateCode |-> "ONRSPREQUESTVERTIFICATECODE",
    OnExpriationDate |-> "ONEXPRIATIONDATE",
    OnAPIReady |-> "ONAPIREADY",
    OnDisconnect |-> "ONDISCONNECT",
    OnRspChangePassword |-> "ONRSPCHANGEPASSWORD",
    OnRspAuthPassword |-> "ONRSPAUTHPASSWORD",
    OnRspQryTradingDate |-> "ONRSPQRYTRADINGDATE",
    OnRspSetReservedInfo |-> "ONRSPSETRESERVEDINFO",
    OnRspQryAccount |-> "ONRSPQRYACCOUNT",
    OnRspQryFund |-> "ONRSPQRYFUND",
    OnRtnFund |-> "ONRTNFUND",
    OnRspQryExchange |-> "ONRSPQRYEXCHANGE",
    OnRspQryCommodity |-> "ONRSPQRYCOMMODITY",
    OnRspQryContract |-> "ONRSPQRYCONTRACT",
    OnRtnContract |-> "ONRTNCONTRACT",
    OnRspOrderAction |-> "ONRSPORDERACTION",
    OnRtnOrder |-> "ONRTNORDER",
    OnRspQryOrder |-> "ONRSPQRYORDER",
    OnRspQryOrderProcess |-> "ONRSPQRYORDERPROCESS",
    OnRspQryFill |-> "ONRSPQRYFILL",
    OnRtnFill |-> "ONRTNFILL",
    OnRspQryPosition |-> "ONRSPQRYPOSITION",
    OnRtnPosition |-> "ONRTNPOSITION",
    OnRspQryPositionSummary |-> "ONRSPQRYPOSITIONSUMMARY",
    OnRtnPositionSummary |-> "ONRTNPOSITIONSUMMARY",
    OnRtnPositionProfit |-> "ONRTNPOSITIONPROFIT",
    OnRspQryCurrency |-> "ONRSPQRYCURRENCY",
    OnRspQryTradeMessage |-> "ONRSPQRYTRADEMESSAGE",
    OnRtnTradeMessage |-> "ONRTNTRADEMESSAGE",
    OnRspQryHisOrder |-> "ONRSPQRYHISORDER",
    OnRspQryHisOrderProcess |-> "ONRSPQRYHISORDERPROCESS",
    OnRspQryHisMatch |-> "ONRSPQRYHISMATCH",
    OnRspQryHisPosition |-> "ONRSPQRYHISPOSITION",
    OnRspQryHisDelivery |-> "ONRSPQRYHISDELIVERY",
    OnRspQryAccountCashAdjust |-> "ONRSPQRYACCOUNTCASHADJUST",
    OnRspQryBill |-> "ONRSPQRYBILL",
    OnRspQryAccountFeeRent |-> "ONRSPQRYACCOUNTFEERENT",
    OnRspQryAccountMarginRent |-> "ONRSPQRYACCOUNTMARGINRENT",
    OnRspHKMarketOrderInsert |-> "ONRSPHKMARKETORDERINSERT",
    OnRspHKMarketOrderDelete |-> "ONRSPHKMARKETORDERDELETE",
    OnHKMarketQuoteNotice |-> "ONHKMARKETQUOTENOTICE",
    OnRspOrderLocalRemove |-> "ONRSPORDERLOCALREMOVE",
    OnRspOrderLocalInput |-> "ONRSPORDERLOCALINPUT",
    OnRspOrderLocalModify |-> "ONRSPORDERLOCALMODIFY",
    OnRspOrderLocalTransfer |-> "ONRSPORDERLOCALTRANSFER",
    OnRspFillLocalInput |-> "ONRSPFILLLOCALINPUT",
    OnRspFillLocalRemove |-> "ONRSPFILLLOCALREMOVE" ]

\* the handler that belongs to each callback: onX for OnX
HandlerOfCallback ==
  [ OnConnect |-> "onConnect",
    OnRspLogin |-> "onRspLogin",
    OnRtnContactInfo |-> "onRtnContactInfo",
    OnRspRequestVertificateCode |-> "onRspRequestVertificateCode",
    OnExpriationDate |-> "onExpriationDate",
    OnAPIReady |-> "onAPIReady",
    OnDisconnect |-> "onDisconnect",
    OnRspChangePassword |-> "onRspChangePassword",
    OnRspAuthPassword |-> "onRspAuthPassword",
    OnRspQryTradingDate |-> "onRspQryTradingDate",
    OnRspSetReservedInfo |-> "onRspSetReservedInfo",
    OnRspQryAccount |-> "onRspQryAccount",
    OnRspQryFund |-> "onRspQryFund",
    OnRtnFund |-> "onRtnFund",
    OnRspQryExchange |-> "onRspQryExchange",
    OnRspQryCommodity |-> "onRspQryCommodity",
    OnRspQryContract |-> "onRspQryContract",
    OnRtnContract |-> "onRtnContract",
    OnRspOrderAction |-> "onRspOrderAction",
    OnRtnOrder |-> "onRtnOrder",
    OnRspQryOrder |-> "onRspQryOrder",
    OnRspQryOrderProcess |-> "onRspQryOrderProcess",
    OnRspQryFill |-> "onRspQryFill",
    OnRtnFill |-> "onRtnFill",
    OnRspQryPosition |-> "onRspQryPosition",
    OnRtnPosition |-> "onRtnPosition",
    OnRspQryPositionSummary |-> "onRspQryPositionSummary",
    OnRtnPositionSummary |-> "onRtnPositionSummary",
    OnRtnPositionProfit |-> "onRtnPositionProfit",
    OnRspQryCurrency |-> "onRspQryCurrency",
    OnRspQryTradeMessage |-> "onRspQryTradeMessage",
    OnRtnTradeMessage |-> "onRtnTradeMessage",
    OnRspQryHisOrder |-> "onRspQryHisOrder",
    OnRspQryHisOrderProcess |-> "onRspQryHisOrderProcess",
    OnRspQryHisMatch |-> "onRspQryHisMatch",
    OnRspQryHisPosition |-> "onRspQryHisPosition",
    OnRspQryHisDelivery |-> "onRspQryHisDelivery",
    OnRspQryAccountCashAdjust |-> "onRspQryAccountCashAdjust",
    OnRspQryBill |-> "onRspQryBill",
    OnRspQryAccountFeeRent |-> "onRspQryAccountFeeRent",
    OnRspQryAccountMarginRent |-> "onRspQryAccountMarginRent",
    OnRspHKMarketOrderInsert |-> "onRspHKMarketOrderInsert",
    OnRspHKMarketOrderDelete |-> "onRspHKMarketOrderDelete",
    OnHKMarketQuoteNotice |-> "onHKMarketQuoteNotice",
    OnRspOrderLocalRemove |-> "onRspOrderLocalRemove",
    OnRspOrderLocalInput |-> "onRspOrderLocalInput",
    OnRspOrderLocalModify |-> "onRspOrderLocalModify",
    OnRspOrderLocalTransfer |-> "onRspOrderLocalTransfer",
    OnRspFillLocalInput |-> "onRspFillLocalInput",
    OnRspFillLocalRemove |-> "onRspFillLocalRemove" ]

\* the callback whose call built a task
OriginOf(task) == task.origin[1]

\* the arguments the SDK passed in that call
OriginArgs(task) == task.origin[2]

\* C1: every SDK callback pushes exactly one task, tagged with the task name
\* of that callback, and invokes no handler: entering a callback changes
\* neither the queue nor the invocations, its return appends one task with
\* the callback's task name to the queue, and every invocation ever made was
\* made by a worker thread, never by an SDK thread.
C1_CallbackPushesOneTaggedTask ==
  /\ [][\A t \in SdkThreads :
          /\ (sdk[t].pc = "idle" /\ sdk'[t].pc = "push")
               => (pushed' = pushed /\ calls' = calls)
          /\ (sdk[t].pc = "push" /\ sdk'[t].pc = "idle")
               => /\ Len(pushed') = Len(pushed) + 1
                  /\ SubSeq(pushed', 1, Len(pushed)) = pushed
                  /\ pushed'[Len(pushed')].task_name
                       = TaskNameOfCallback[OriginOf(sdk[t].task)]
                  /\ OriginOf(pushed'[Len(pushed')]) = OriginOf(sdk[t].task)
                  /\ calls' = calls]_vars
  /\ [](\A i \in 1..Len(calls) : calls[i].thread[1] = "worker")

\* a callback has returned after its push while an earlier task is in a handler
C1_Witness ==
  /\ Len(pushed) >= 1
  /\ Len(calls) >= 1
  /\ \E t \in SdkThreads : sdk[t].pc = "idle"
  /\ task_queue = <<>>

C3_ReplayInPushOrder ==
  /\ Len(calls) <= Len(pushed)
  /\ \A i \in 1..Len(calls) : calls[i].task = pushed[i]

\* two different tasks, pushed by different callbacks, were both delivered
C3_Witness ==
  /\ Len(calls) >= 2
  /\ calls[1].task # calls[2].task

\* the worker threads that exist and have not ended
LiveWorkers == {w \in WorkerIds : worker[w].pc \notin {"none", "done"}}

\* the worker threads that are inside a handler
Executing == {w \in WorkerIds : worker[w].pc \in {"handler", "python"}}

\* C4: there is a single consumer: at most one worker thread is alive, it is
\* the thread task_thread owns, at most one handler is executing at any time,
\* and only worker threads execute handlers, whatever the SDK threads do.
C4_SingleConsumer ==
  /\ Cardinality(LiveWorkers) <= 1
  /\ \A w \in LiveWorkers : w = task_thread
  /\ Cardinality(Executing) <= 1
  /\ \A w \in WorkerIds : worker[w].pc = "none" => \A i \in 1..Len(calls) : calls[i].thread # <<"worker", w>>

\* a handler is executing while an SDK thread is inside a callback
C4_Witness ==
  /\ \E w \in WorkerIds : worker[w].pc = "python"
  /\ \E t \in SdkThreads : sdk[t].pc = "push"

\* number of callbacks of type ev whose push has completed
Received(ev) == Cardinality({i \in 1..Len(pushed) : OriginOf(pushed[i]) = ev})

\* number of invocations of the handler of event type ev
Handled(ev) == Cardinality({i \in 1..Len(calls) : calls[i].handler = HandlerOfCallback[ev]})

\* exit() has been called
ExitCalled == terminated \/ hostpc # "py"

\* the worker thread is blocked in pop
WorkerIdle == task_thread # 0 /\ worker[task_thread].pc = "pop"

\* C5: no task is lost or duplicated: for each event type the handler was
\* invoked at most as often as callbacks of the type were received, and
\* exactly as often once the queue is empty and the worker idle, exit() not
\* having been called.
C5_NoTaskLostOrDuplicated ==
  \A ev \in Events :
    /\ Handled(ev) <= Received(ev)
    /\ (task_queue = <<>> /\ WorkerIdle /\ ~ExitCalled) => Handled(ev) = Received(ev)

\* both SDK threads delivered a callback and the worker drained the queue
C5_Witness ==
  /\ task_queue = <<>> /\ WorkerIdle /\ ~ExitCalled
  /\ Len(calls) >= 2
  /\ \A t \in SdkThreads : sdk[t].pc = "idle"

\* C6: every queued task is eventually delivered to its handler once init()
\* has started the worker, unless exit() is called or the process is aborted:
\* under WorkerFairness, the k-th pushed task leads to the k-th invocation.
C6_QueuedTaskDelivered ==
  \A k \in 1..MaxEvents :
    (Len(pushed) >= k /\ task_thread # 0)
      ~> (Len(calls) >= k \/ ExitCalled \/ fault # "none")

\* every task that was pushed has been delivered, the worker still runs
C6_Witness ==
  /\ task_thread # 0 /\ ~ExitCalled /\ fault = "none"
  /\ Len(pushed) >= 2
  /\ Len(calls) = Len(pushed)

\* C7: a callback always completes its push and returns, also when the
\* worker never leaves a handler or waits for the interpreter lock: under
\* SdkFairness alone (no progress of the worker or the host is assumed) a
\* callback that has built its task returns, unless the process is aborted.
C7_CallbackReturns ==
  \A t \in SdkThreads :
    (sdk[t].pc = "push") ~> (sdk[t].pc = "idle" \/ fault # "none")

\* callbacks have returned while the worker is still inside the first handler
C7_Witness ==
  /\ \E w \in WorkerIds : worker[w].pc = "python"
  /\ Len(calls) = 1
  /\ Len(pushed) >= 2
  /\ \A t \in SdkThreads : sdk[t].pc = "idle"

\* C8: the queue blocks the consumer: while the queue is empty and not
\* terminated a worker that is in pop stays in pop and no handler is invoked;
\* it leaves pop only when the queue holds a task or was terminated.
C8_PopBlocksOnEmptyQueue ==
  [][\A w \in WorkerIds :
       (worker[w].pc = "pop" /\ task_queue = <<>> /\ ~terminated)
         => (worker'[w].pc = "pop" /\ calls' = calls)]_vars

\* the worker delivered a task and is blocked in pop again on the empty queue
C8_Witness ==
  /\ WorkerIdle /\ task_queue = <<>> /\ ~terminated
  /\ Len(calls) >= 1

\* the parameters of the callback that built a task
OriginParams(task) == CallbackCode[OriginOf(task)].params

\* the callback has a parameter of one of the names
Carries(ev, names) ==
  \E i \in 1..Len(CallbackCode[ev].params) : CallbackCode[ev].params[i].name \in names

\* the value the SDK passed for the parameter of one of the names
Passed(task, names) ==
  OriginArgs(task)[CHOOSE i \in 1..Len(OriginParams(task)) : OriginParams(task)[i].name \in names]

\* position of the session argument of a handler: its first parameter
\* called session
SessionPos(h) ==
  CHOOSE i \in 1..Len(HandlerCode[h]) :
    /\ HandlerCode[h][i].name = "session"
    /\ \A j \in 1..(i - 1) : HandlerCode[h][j].name # "session"

\* position of the error argument of a handler: its parameter called error
\* or reasonCode, else the one that follows the session argument
ErrorPos(h) ==
  IF \E i \in 1..Len(HandlerCode[h]) : HandlerCode[h][i].name \in {"error", "reasonCode"}
  THEN CHOOSE i \in 1..Len(HandlerCode[h]) : HandlerCode[h][i].name \in {"error", "reasonCode"}
  ELSE SessionPos(h) + 1

\* C9: for every callback that carries a sessionID, the session argument of
\* the handler invoked for its task is the sessionID the SDK passed.
C9_SessionDelivered ==
  \A i \in 1..Len(calls) :
    Carries(OriginOf(calls[i].task), {"sessionID"})
      => calls[i].args[SessionPos(calls[i].handler)] = Passed(calls[i].task, {"sessionID"})

\* C10: for every callback that carries an errorCode or a reasonCode, the
\* error argument of the handler invoked for its task is the value the SDK
\* passed.
C10_ErrorDelivered ==
  \A i \in 1..Len(calls) :
    Carries(OriginOf(calls[i].task), {"errorCode", "reasonCode"})
      => calls[i].args[ErrorPos(calls[i].handler)]
           = Passed(calls[i].task, {"errorCode", "reasonCode"})


\* position of the last argument of a handler
LastPos(h) == CHOOSE i \in 1..Len(HandlerCode[h]) : HandlerCode[h][i].name = "last"

\* C11: for every callback that carries the isLast flag, the last argument
\* of the handler invoked for its task is true exactly when the SDK passed
\* 'Y' (and so false when it passed 'N').
C11_LastDelivered ==
  \A i \in 1..Len(calls) :
    Carries(OriginOf(calls[i].task), {"isLast"})
      => (calls[i].args[LastPos(calls[i].handler)]
            = (Passed(calls[i].task, {"isLast"}) = CharY))

(* ---- C12 ---------------------------------------------------------------- *)
\* a value of a map refers to memory of the SDK
RefersToSdk(v) == DOMAIN v = {"sdk_memory"}

\* the map the handler a worker is in was called with
MapIn(w) == MapOf(DictOf(ProcessOf(worker[w].task.task_name), worker[w].task))

\* C12: the map handed to a handler is a snapshot of the payload as it was
\* when the callback ran, the structs the payload points to included: while
\* a handler runs, no value of its map is memory that the SDK has overwritten
\* or released since the callback returned.
C12_MapIsSnapshot ==
  \A w \in WorkerIds :
    worker[w].pc = "python" =>
      \A k \in DOMAIN MapIn(w) :
        RefersToSdk(MapIn(w)[k]) => sdk_buf[CopyOf(worker[w].task)] = "valid"

(* ---- C13 ---------------------------------------------------------------- *)
\* the invocations of handlers whose override raises
RaisingCalls == {i \in 1..Len(calls) : calls[i].handler \in raising}

\* the workers that are inside a handler whose override raises
InRaising == {w \in Executing : HandlerIn(w) \in raising}

\* C13: an error raised by a user override does not stop dispatch: it is
\* caught in the override and reported (never an uncaught exception that ends
\* the process, one report per raising invocation that has returned), and
\* under WorkerFairness the task queued behind the raising invocation is
\* delivered next, in push order, unless exit() is called or the process is
\* aborted for another reason.
C13_RaisingHandlerDoesNotStopDispatch ==
  /\ [](fault # "uncaught")
  /\ [](reported = Cardinality(RaisingCalls) - Cardinality(InRaising))
  /\ \A k \in 1..MaxEvents :
       (Len(calls) >= k /\ calls[k].handler \in raising /\ Len(pushed) > k)
         ~> (\/ Len(calls) > k /\ calls[k + 1].task = pushed[k + 1]
             \/ ExitCalled \/ fault # "none")

\* an override raised, the error was reported, and the task queued behind it
\* has been delivered while the worker still runs
C13_Witness ==
  /\ reported >= 1
  /\ Len(calls) >= 2
  /\ calls[1].handler \in raising
  /\ calls[2].handler \notin raising
  /\ fault = "none" /\ ~ExitCalled

(* ---- C14 ---------------------------------------------------------------- *)
\* the query-response handler and the push-notification handler of a payload
\* type
PairedHandlers ==
  { <<"onRspQryFund", "onRtnFund">>,
    <<"onRspQryContract", "onRtnContract">>,
    <<"onRspQryFill", "onRtnFill">>,
    <<"onRspQryPosition", "onRtnPosition">>,
    <<"onRspQryPositionSummary", "onRtnPositionSummary">>,
    <<"onRspQryTradeMessage", "onRtnTradeMessage">> }

\* the other handler of the pair of h
PartnerOf(h) ==
  CHOOSE g \in DOMAIN HandlerCode :
    <<h, g>> \in PairedHandlers \/ <<g, h>> \in PairedHandlers

\* the processX function that calls handler h
ProcessCalling(h) == CHOOSE p \in DOMAIN ProcessCode : HandlerOf(p) = h

\* the map among the arguments of an invocation
DataOf(call) ==
  LET i == CHOOSE j \in 1..Len(call.args) :
             ProcessCode[ProcessCalling(call.handler)].args[j] = "data"
  IN call.args[i]

\* C14: the query-response handler and the push-notification handler of a
\* payload type receive the same map for the same payload: the map a handler
\* of a pair was invoked with has the keys and the values of the map that the
\* other function of the pair builds from that payload.
C14_PairedHandlersSameMap ==
  \A i \in 1..Len(calls) :
    (\E pr \in PairedHandlers : calls[i].handler \in {pr[1], pr[2]})
      => LET d == DataOf(calls[i])
             partner == ProcessCalling(PartnerOf(calls[i].handler))
         IN /\ DictCode[partner].cast = DictCode[d.of].cast
            /\ KeysIn(d) = KeysIn(DictOf(partner, calls[i].task))
            /\ MapOf(d) = MapOf(DictOf(partner, calls[i].task))

\* onRtnFund was invoked with the map of a non-null payload
C14_Witness ==
  \E i \in 1..Len(calls) :
    /\ calls[i].handler = "onRtnFund"
    /\ calls[i].task.task_data # NULL
    /\ Cardinality(KeysIn(DataOf(calls[i]))) > 1

(* ---- C15 ---------------------------------------------------------------- *)
\* the SDK query named after each qryX function
QueryNamedAfter ==
  [ qryTradingDate |-> "QryTradingDate",
    qryAccount |-> "QryAccount",
    qryFund |-> "QryFund",
    qryExchange |-> "QryExchange",
    qryCommodity |-> "QryCommodity",
    qryContract |-> "QryContract",
    qryOrder |-> "QryOrder",
    qryOrderProcess |-> "QryOrderProcess",
    qryFill |-> "QryFill",
    qryPosition |-> "QryPosition",
    qryPositionSummary |-> "QryPositionSummary",
    qryCurrency |-> "QryCurrency",
    qryAccountCashAdjust |-> "QryAccountCashAdjust",
    qryTradeMessage |-> "QryTradeMessage",
    qryBill |-> "QryBill",
    qryHisOrder |-> "QryHisOrder",
    qryHisOrderProcess |-> "QryHisOrderProcess",
    qryHisMatch |-> "QryHisMatch",
    qryHisPosition |-> "QryHisPosition",
    qryHisDelivery |-> "QryHisDelivery",
    qryAccountFeeRent |-> "QryAccountFeeRent",
    qryAccountMarginRent |-> "QryAccountMarginRent" ]

\* the values of a req map
ValuesOf(req) == {req[k] : k \in DOMAIN req}

\* C15: the wrapper keeps no state of its own for requests: a qryX call on a
\* created api makes exactly one SDK call, to the query named after it, with
\* the caller's session, returns the SDK's return code, leaves the task
\* queue, its terminate flag, the active flag and the worker thread as they
\* are, and every field of the request struct it passes is zero or a value
\* of this call's req, whatever the previous request was.
C15_QryStateless ==
  [][\A c \in host_qry :
       (qry(c) /\ api # "NULL") =>
         /\ Len(last_qry') = 1
         /\ last_qry'[1].call = c
         /\ Len(last_qry'[1].sdk_calls) = 1
         /\ last_qry'[1].sdk_calls[1].method = QueryNamedAfter[c.f]
         /\ last_qry'[1].sdk_calls[1].args[1] = c.session
         /\ last_qry'[1].ret = c.ret
         /\ UNCHANGED <<task_queue, terminated, active, task_thread, worker>>
         /\ \A j \in 2..Len(last_qry'[1].sdk_calls[1].args) :
              LET sent == last_qry'[1].sdk_calls[1].args[j]
              IN \A fld \in DOMAIN sent : sent[fld] \in {0} \cup ValuesOf(c.req)]_vars

\* a query with an empty req was made right after one whose req had a value
\* for every field, and the request it passed has fields
C15_Witness ==
  /\ last_qry # <<>>
  /\ host_calls = 3
  /\ last_qry[1].call.req = [k \in {} |-> 0]
  /\ last_qry[1].call.session = 2^(IntBits - 1)
  /\ last_qry[1].call.ret = -1
  /\ Len(last_qry[1].sdk_calls[1].args) = 2
  /\ DOMAIN last_qry[1].request # {}

(* ---- C16 ---------------------------------------------------------------- *)
\* C16: a call of exit() made after init() always returns: with every thread
\* scheduled fairly, once exit() has been entered while the worker thread
\* exists, the worker ends, the join completes and exit() returns, unless
\* the process is aborted.
C16_ExitReturns ==
  (hostpc = "exit_terminate" /\ task_thread # 0)
    ~> (hostpc = "py" \/ fault # "none")

(* ---- C17 ---------------------------------------------------------------- *)
\* C17: once exit() has returned no user handler is invoked again, neither
\* for the tasks that were still queued when exit() was called nor for the
\* tasks that callbacks push afterwards: no step from a state in which a call
\* of exit() has returned adds a handler invocation.
C17_NoHandlerAfterExit ==
  [][exit_returned => calls' = calls]_vars

\* exit() has returned, tasks are still queued and a callback is about to
\* push one more
C17_Witness ==
  /\ exit_returned
  /\ task_queue # <<>>
  /\ \E t \in SdkThreads : sdk[t].pc = "push"

(* ---- C18 ---------------------------------------------------------------- *)
\* the worker leaves the processX function of the k-th pushed task
Processes(k) ==
  \E w \in WorkerIds :
    /\ worker[w].pc = "process" /\ worker'[w].pc # "process"
    /\ worker[w].task = pushed[k]

C19_NoPayloadLeaked ==
  exit_returned => \A k \in 1..Len(heap) : heap[k] # "live"

(* ---- C20 ---------------------------------------------------------------- *)
\* the SDK passed a null payload pointer in the callback that built the task
NullPayload(task) ==
  \E i \in 1..Len(OriginParams(task)) :
    OriginParams(task)[i].type = "ptr" /\ OriginArgs(task)[i] = NULL

\* C20: when the SDK calls a callback with a null payload pointer the task is
\* queued with a null task_data and nothing allocated, and the handler
\* invoked for it receives an empty map, nothing being freed, together with
\* the scalar arguments of the callback: the session, the error code and the
\* last flag the SDK passed.
C20_NullPayloadDelivered ==
  \A k \in 1..Len(pushed) :
    NullPayload(pushed[k]) =>
      /\ pushed[k].task_data = NULL
      /\ heap[k] = "none"
      /\ \A i \in 1..Len(calls) :
           calls[i].task = pushed[k] =>
             LET ev == OriginOf(pushed[k])
                 h == calls[i].handler
             IN /\ KeysIn(DataOf(calls[i])) = {}
                /\ Carries(ev, {"sessionID"})
                     => calls[i].args[SessionPos(h)] = Passed(pushed[k], {"sessionID"})
                /\ Carries(ev, {"errorCode"})
                     => calls[i].args[ErrorPos(h)] = Passed(pushed[k], {"errorCode"})
                /\ Carries(ev, {"isLast"})
                     => calls[i].args[LastPos(h)] = (Passed(pushed[k], {"isLast"}) = CharY)

(* ---- C21 ---------------------------------------------------------------- *)
\* the tasks that worker threads have taken from the queue and not finished
InHand == {w \in WorkerIds : worker[w].task # EmptyTask}

C22_LockTakenInProcess ==
  \A i \in 1..Len(calls) : calls[i].locked

\* an invocation passes a map
PassesMap(call) ==
  \E j \in 1..Len(call.args) :
    ProcessCode[ProcessCalling(call.handler)].args[j] = "data"

\* C22 as amended: the worker holds the interpreter lock whenever it builds
\* a map and whenever a user override runs.  Every processX function takes
\* the lock before it reads the task and calls this->onX, except
\* processConnect, which builds no map and passes no argument; for it the
\* lock is taken in PyTdApi::onConnect before the user override runs.
C22_LockHeldForMapAndOverride ==
  /\ \A w \in WorkerIds :
       worker[w].pc = "python" => (gil = "worker" /\ worker[w].holds)
  /\ \A w \in WorkerIds : worker[w].holds => gil = "worker"
  /\ \A i \in 1..Len(calls) :
       /\ PassesMap(calls[i]) => calls[i].locked
       /\ ~calls[i].locked => (calls[i].handler = "onConnect" /\ calls[i].args = <<>>)

\* the user override of onConnect runs, the lock having been taken in the
\* PyTdApi override and not in processConnect
C22_Witness ==
  \E w \in WorkerIds :
    /\ worker[w].pc = "python"
    /\ HandlerIn(w) = "onConnect"
    /\ gil = "worker"
    /\ ~calls[Len(calls)].locked

(* ---- C23 ---------------------------------------------------------------- *)
\* exit() is at, or past, api->RegisterSpi(NULL); api->Release()
Releasing == hostpc = "exit_release" \/ exit_returned

\* C23: exit() releases the SDK only after dispatch has stopped: when it
\* comes to unregister the callback interface and release the handle, active
\* is false, the queue is terminated and the worker thread has been joined;
\* from then on no worker thread is alive, in a handler or holding a task;
\* and the step in which exit() returns leaves the handle null and the
\* callback interface unregistered.
C23_ReleaseAfterDispatchStopped ==
  /\ [](hostpc = "exit_release" => (~active /\ terminated /\ task_thread = 0))
  /\ [](Releasing => (LiveWorkers = {} \/ hostpc = "py") /\ Executing = {} /\ InHand = {})
  /\ [][(hostpc = "exit_release" /\ hostpc' = "py")
          => (api' = "NULL" /\ ~spi' /\ exit_returned' /\ calls' = calls)]_vars

\* exit() is about to release the SDK after the worker delivered a task and
\* was joined, a task being left in the queue
C23_Witness ==
  /\ hostpc = "exit_release"
  /\ api # "NULL"
  /\ Len(calls) >= 1
  /\ task_queue # <<>>

(* ---- C24 ---------------------------------------------------------------- *)
\* C24: exit() is idempotent: a call of exit() on an object whose worker
\* thread is not running (a second exit(), or exit() without init()) changes
\* neither the active flag nor the queue, and it ends by returning from its
\* last statement, not by an error out of join().
C24_ExitIdempotent ==
  [][(hostpc # "py" /\ task_thread = 0)
       => /\ terminated' = terminated
          /\ active' = active
          /\ hostpc' = "py" => hostpc = "exit_release"]_vars

(* ---- C25 ---------------------------------------------------------------- *)
\* the threads that are in processTask
Consumers ==
  Cardinality(LiveWorkers) + (IF spawned = "none" THEN 0 ELSE 1)

\* C25: for any sequence of init() and exit() calls at most one thread
\* consumes the task queue at a time: no call of init() leaves a second
\* thread in processTask next to a running worker.
C25_OneConsumerAtATime ==
  Consumers <= 1

(* ---- C26 ---------------------------------------------------------------- *)
\* argument i of an invocation comes from the arguments of the callback that
\* built its task: it is one of them, converted to the handler's parameter
\* type, or the value a field of Task() has; a map is built from the copy of
\* a payload of that callback, or it is empty
FromOwnCallback(call, i) ==
  LET ev == OriginOf(call.task)
      as == OriginArgs(call.task)
      ps == CallbackCode[ev].params
      hp == HandlerCode[call.handler]
  IN IF hp[i].type = "dict"
     THEN \/ call.args[i].from = NULL
          \/ \E k \in 1..Len(ps) : ps[k].type = "ptr" /\ call.args[i].from = as[k]
     ELSE IF hp[i].type = "string"
     THEN \/ call.args[i] = ""
          \/ \E k \in 1..Len(ps) : ps[k].type = "string" /\ call.args[i] = as[k]
     ELSE \/ call.args[i] = (IF hp[i].type = "bool" THEN FALSE ELSE 0)
          \/ \E k \in 1..Len(ps) :
               /\ ps[k].type \in {"int", "unsigned int", "char"}
               /\ call.args[i] = Conv(ps[k].type, hp[i].type, as[k])

C27_SessionWholeRange ==
  \A n \in 1..Len(calls) :
    OriginOf(calls[n].task) = "OnRspRequestVertificateCode"
      => LET sessionID == OriginArgs(calls[n].task)[1]
             session == calls[n].args[1]
         IN /\ sessionID \in 0..(2^IntBits - 1)
            /\ session >= 0
            /\ session = sessionID

====
